---- MODULE Spec2Model ----
(***************************************************************************)
(* Model of the recipe-graph mutation engine of factorio-calc              *)
(* (src/src/graph.ts): the RecipeGraph aggregate with its five indices,    *)
(* the identity allocator and the three mutators expandNode, collapseNode  *)
(* and mergeNodes, together with the helpers they call (severEdge,         *)
(* deleteNode, mergeDepths, mergeTerminals, mergeIntermediates,            *)
(* zipDownstreamNodes, upnodes, downnodes, iterate).                       *)
(*                                                                         *)
(* JavaScript values are represented as follows.                           *)
(*   Map<K,V>      a function whose DOMAIN is the key set                  *)
(*   T[]           a sequence (index d of the code is index d+1 here)      *)
(*   Result        the causal chain of errors, outermost first; Ok = <<>>  *)
(*   NaN / hole    the distinguished numbers NaN and Hole of nodesOnLevel  *)
(* A call that never returns (a for-of loop over an array that the loop    *)
(* body grows) is reported with the pseudo error kind "<hang>".            *)
(***************************************************************************)
EXTENDS Integers, Sequences, FiniteSets, TLC

\* ------------------------------------------------------------------------
\* Bounds of the model
\* ------------------------------------------------------------------------

\* Largest number of NodeIDs nextNodeID may issue in one behaviour.
MaxIssued == 7

\* Largest number of tasks handed to scheduleTilDeadline in one behaviour.
MaxTasks == 4

\* ------------------------------------------------------------------------
\* Recipe data (the external collaborator ./recipe, ./machine)
\* ------------------------------------------------------------------------

It(n) == [name |-> n, type |-> "item"]
Fl(n) == [name |-> n, type |-> "fluid"]
Amt(item, a) == [name |-> item.name, type |-> item.type, amount |-> a]

\* An ItemAmount without its amount: `const { amount, ...item } = x`.
ItemOf(x) == [name |-> x.name, type |-> x.type]

NoItem == [name |-> "", type |-> ""]
NoRecipe == ""
NoMachine == ""

\* Seven recipe books, each closed under "ingredient of":
\*   P <- A, B;  B <- A;  A <- C, D;  D has two recipes;  C has none
\*   Q <- F, H;  H <- F;  F <- G;  G <- fluid C
\*   R <- X, Y;  X <- Z;  Y <- Z
\*   T <- M, N;  M and N are the second results of two recipes whose first
\*               result is K (M's has the ingredient J, N's has J and L)
\*   U <- V, W;  W <- E, V;  V <- E
\*   I <- O;  O <- I  (an item that is an ingredient of itself)
\* and S <- T, fluid M, which puts the book of T below an Intermediate, next
\* to a fluid that has the name of an item of that book.
Recipes ==
  [ rP  |-> [name |-> "rP", energyRequired |-> 1,
             ingredients |-> <<Amt(It("A"), 2), Amt(It("B"), 1)>>,
             results |-> <<Amt(It("P"), 1)>>],
    rB  |-> [name |-> "rB", energyRequired |-> 1,
             ingredients |-> <<Amt(It("A"), 1)>>,
             results |-> <<Amt(It("B"), 1)>>],
    rA  |-> [name |-> "rA", energyRequired |-> 2,
             ingredients |-> <<Amt(It("C"), 1), Amt(It("D"), 2)>>,
             results |-> <<Amt(It("A"), 1)>>],
    rD1 |-> [name |-> "rD1", energyRequired |-> 1,
             ingredients |-> <<Amt(It("C"), 1)>>,
             results |-> <<Amt(It("D"), 1)>>],
    rD2 |-> [name |-> "rD2", energyRequired |-> 1,
             ingredients |-> <<Amt(Fl("C"), 2)>>,
             results |-> <<Amt(It("D"), 2)>>],
    rQ  |-> [name |-> "rQ", energyRequired |-> 2,
             ingredients |-> <<Amt(It("F"), 1), Amt(It("H"), 1)>>,
             results |-> <<Amt(It("Q"), 2)>>],
    rH  |-> [name |-> "rH", energyRequired |-> 1,
             ingredients |-> <<Amt(It("F"), 3)>>,
             results |-> <<Amt(It("H"), 1)>>],
    rF  |-> [name |-> "rF", energyRequired |-> 1,
             ingredients |-> <<Amt(It("G"), 2)>>,
             results |-> <<Amt(It("F"), 1)>>],
    rG  |-> [name |-> "rG", energyRequired |-> 1,
             ingredients |-> <<Amt(Fl("C"), 1)>>,
             results |-> <<Amt(It("G"), 1)>>],
    rR  |-> [name |-> "rR", energyRequired |-> 1,
             ingredients |-> <<Amt(It("X"), 1), Amt(It("Y"), 2)>>,
             results |-> <<Amt(It("R"), 1)>>],
    rX  |-> [name |-> "rX", energyRequired |-> 1,
             ingredients |-> <<Amt(It("Z"), 2)>>,
             results |-> <<Amt(It("X"), 1)>>],
    rY  |-> [name |-> "rY", energyRequired |-> 1,
             ingredients |-> <<Amt(It("Z"), 3)>>,
             results |-> <<Amt(It("Y"), 1)>>],
    rT  |-> [name |-> "rT", energyRequired |-> 1,
             ingredients |-> <<Amt(It("M"), 1), Amt(It("N"), 1)>>,
             results |-> <<Amt(It("T"), 1)>>],
    rM  |-> [name |-> "rM", energyRequired |-> 1,
             ingredients |-> <<Amt(It("J"), 2)>>,
             results |-> <<Amt(It("K"), 1), Amt(It("M"), 1)>>],
    rN  |-> [name |-> "rN", energyRequired |-> 1,
             ingredients |-> <<Amt(It("J"), 1), Amt(It("L"), 1)>>,
             results |-> <<Amt(It("K"), 1), Amt(It("N"), 1)>>],
    rU  |-> [name |-> "rU", energyRequired |-> 1,
             ingredients |-> <<Amt(It("V"), 1), Amt(It("W"), 1)>>,
             results |-> <<Amt(It("U"), 1)>>],
    rW  |-> [name |-> "rW", energyRequired |-> 1,
             ingredients |-> <<Amt(It("E"), 1), Amt(It("V"), 2)>>,
             results |-> <<Amt(It("W"), 1)>>],
    rV  |-> [name |-> "rV", energyRequired |-> 1,
             ingredients |-> <<Amt(It("E"), 3)>>,
             results |-> <<Amt(It("V"), 1)>>],
    rI  |-> [name |-> "rI", energyRequired |-> 1,
             ingredients |-> <<Amt(It("O"), 1)>>,
             results |-> <<Amt(It("I"), 1)>>],
    rO  |-> [name |-> "rO", energyRequired |-> 1,
             ingredients |-> <<Amt(It("I"), 2)>>,
             results |-> <<Amt(It("O"), 1)>>],
    rS  |-> [name |-> "rS", energyRequired |-> 1,
             ingredients |-> <<Amt(It("T"), 1), Amt(Fl("M"), 1)>>,
             results |-> <<Amt(It("S"), 1)>>] ]

RecipeNames == DOMAIN Recipes

\* The recipes of the book in which an item is an ingredient of itself.
CyclicRecipes == {"rI", "rO"}

\* The recipe whose ingredient is made by a recipe with ingredients that are
\* second results of their recipes.
NestedRecipes == {"rS"}

\* The root recipes of the other books.
PlainRecipes == RecipeNames \ (CyclicRecipes \cup NestedRecipes)

\* The order of the recipe list (recipes.filter keeps it).
RecipeOrder ==
  <<"rP", "rB", "rA", "rD1", "rD2", "rQ", "rH", "rF", "rG", "rR", "rX", "rY",
    "rT", "rM", "rN", "rU", "rW", "rV", "rI", "rO", "rS">>

SeqFilterNames(s, Keep(_)) ==
  LET F[i \in 0..Len(s)] ==
        IF i = 0 THEN <<>>
        ELSE IF Keep(s[i]) THEN Append(F[i-1], s[i]) ELSE F[i-1]
  IN F[Len(s)]

itemEq(a, b) == a.name = b.name /\ a.type = b.type

recipesForResult(item) ==
  SeqFilterNames(RecipeOrder,
    LAMBDA r : \E i \in 1..Len(Recipes[r].results) :
                 Recipes[r].results[i].name = item.name
                 /\ Recipes[r].results[i].type = item.type)

CraftingSpeed(machine) == 1

madeIn(recipe) == <<"assembling-machine-1", "assembling-machine-2">>

machineCount(recipe, throughput, machine) ==
  ((Recipes[recipe].energyRequired * throughput)
      \div Recipes[recipe].results[1].amount) \div CraftingSpeed(machine)

\* ------------------------------------------------------------------------
\* JavaScript containers
\* ------------------------------------------------------------------------

EmptyMap == [x \in {} |-> 0]
MapSet(m, k, v) == [x \in (DOMAIN m) \cup {k} |-> IF x = k THEN v ELSE m[x]]
MapDelete(m, k) == [x \in (DOMAIN m) \ {k} |-> m[x]]
Has(m, k) == k \in DOMAIN m

\* Array.prototype.findIndex with (id) => id === x; 0 stands for -1.
findIndex(s, x) ==
  IF \E i \in 1..Len(s) : s[i] = x
  THEN CHOOSE i \in 1..Len(s) : s[i] = x /\ \A j \in 1..(i-1) : s[j] # x
  ELSE 0

\* splice that removes every element equal to the one at idx.
spliceAll(s, idx) == SelectSeq(s, LAMBDA x : x # s[idx])

\* Array.prototype.splice(idx, 1).
splice(s, idx) == SubSeq(s, 1, idx - 1) \o SubSeq(s, idx + 1, Len(s))

SeqToSet(s) == {s[i] : i \in 1..Len(s)}

\* nodesOnLevel is a number[]: an entry is a count, NaN, or an empty slot.
NaN == 0 - 1000000
Hole == 0 - 2000000

\* `nodesOnLevel[d] += delta` (d is a depth, counted from 0).
LevelAdd(levels, d, delta) ==
  IF d + 1 <= Len(levels)
  THEN [levels EXCEPT ![d + 1] =
          IF @ = NaN \/ @ = Hole THEN NaN ELSE @ + delta]
  ELSE [i \in 1..(d + 1) |->
          IF i <= Len(levels) THEN levels[i]
          ELSE IF i = d + 1 THEN NaN ELSE Hole]

\* ------------------------------------------------------------------------
\* Result (src/src/result.ts): the causal chain, outermost error first
\* ------------------------------------------------------------------------

\* An error: its kind, the node ids it carries (left, right) and what else
\* it carries (info): the direction of a no-edge error, the reason of an
\* inconsistency, the kinds of the nodes an unsupported-node or
\* incompatible-node-types error carries.
Ok == <<>>
ErrRec(kind, left, right, info) ==
  [kind |-> kind, left |-> left, right |-> right, info |-> info]
Err(kind, left, right, info) == <<ErrRec(kind, left, right, info)>>
IsErr(res) == Len(res) > 0
IsOk(res) == Len(res) = 0
\* context that puts the context in the place of the error.
contextNoCause(res, ctx) == IF IsErr(res) THEN <<ctx>> ELSE res

\* Result.context: on Ok the same Ok, on Err the context with the error
\* as its cause.
context(res, ctx) == IF IsErr(res) THEN <<ctx>> \o res ELSE res
errorChain(res) == res
ChainHas(res, kind) == \E i \in 1..Len(res) : res[i].kind = kind

None == 0 - 1
inconsistency(reason, a, b) == Err("inconsistent-graph", a, b, <<reason>>)
Hang == Err("<hang>", None, None, <<>>)

\* What a helper returns: the graph as it left it, and its Result.
Ret(h, res) == [h |-> h, res |-> res]

\* ------------------------------------------------------------------------
\* Nodes
\* ------------------------------------------------------------------------

\* RootNode / IntermediateNode carry recipe, machine, desiredProduction;
\* TerminalNode carries item, requiredAmount, producedByRecipes.  The
\* field amount holds desiredProduction or requiredAmount.
RootNode(id, recipe, amount, machine) ==
  [id |-> id, type |-> "root", recipe |-> recipe, machine |-> machine,
   item |-> NoItem, amount |-> amount, producedByRecipes |-> <<>>]
IntermediateNode(id, recipe, machine, amount) ==
  [id |-> id, type |-> "intermediate", recipe |-> recipe,
   machine |-> machine, item |-> NoItem, amount |-> amount,
   producedByRecipes |-> <<>>]
TerminalNode(id, item, amount, produced) ==
  [id |-> id, type |-> "terminal", recipe |-> NoRecipe,
   machine |-> NoMachine, item |-> item, amount |-> amount,
   producedByRecipes |-> produced]

\* ------------------------------------------------------------------------
\* initialGraph
\* ------------------------------------------------------------------------

\* initialAmount that forgets to divide by the crafting time.
initialAmountUndivided(assemblers, amount, craftingTime) ==
  assemblers * amount

\* requiredAmount of an ingredient Terminal:
\* `(assemblers * amount) / craftingTime`.
initialAmount(assemblers, amount, craftingTime) ==
  (assemblers * amount) \div craftingTime

\* initialLevels that counts the Root's level twice.
initialLevelsShifted(k) == <<1, 1, k>>

\* `nodesOnLevel: [1, children.length]`.
initialLevels(k) == <<1, k>>

\* The graph built for rootRecipe when the allocator has issued `issued`
\* ids so far.  The field detached is bookkeeping of the model: the last
\* contents of the downEdges arrays removed from the map by the running
\* call, which the call may still hold a reference to.
initialGraph(rootRecipe, issued) ==
  LET rec == Recipes[rootRecipe]
      k == Len(rec.ingredients)
      rootId == issued
      machine == madeIn(rootRecipe)[1]
      craftingTime == rec.energyRequired
      assemblers == machineCount(rootRecipe, 2, machine)
      childId(i) == issued + i
      child(i) ==
        TerminalNode(childId(i), ItemOf(rec.ingredients[i]),
                     initialAmount(assemblers, rec.ingredients[i].amount,
                                   craftingTime),
                     recipesForResult(ItemOf(rec.ingredients[i])))
      ids == {rootId} \cup {childId(i) : i \in 1..k}
  IN [nodes |-> [n \in ids |->
                   IF n = rootId THEN RootNode(rootId, rootRecipe, 2, machine)
                   ELSE child(n - issued)],
      downEdges |-> MapSet(EmptyMap, rootId, [i \in 1..k |-> childId(i)]),
      upEdges |-> [n \in ids \ {rootId} |-> <<rootId>>],
      nodeDepth |-> [n \in ids |-> IF n = rootId THEN 0 ELSE 1],
      nodesOnLevel |-> initialLevels(k),
      detached |-> EmptyMap]

\* ------------------------------------------------------------------------
\* severEdge / deleteNode
\* ------------------------------------------------------------------------

RECURSIVE severEdge(_, _, _), deleteNode(_, _), deleteNodeLoop(_, _, _)

\* max over the depths of the parents in `up`, or None when a parent has
\* no depth (the code returns "Missing depth" for the first such parent).
MissingDepthParent(h, up) ==
  IF \E i \in 1..Len(up) : ~Has(h.nodeDepth, up[i])
  THEN up[CHOOSE i \in 1..Len(up) : ~Has(h.nodeDepth, up[i])
            /\ \A j \in 1..(i-1) : Has(h.nodeDepth, up[j])]
  ELSE None

MaxParentDepth(h, up) ==
  CHOOSE d \in {h.nodeDepth[up[i]] : i \in 1..Len(up)} :
    \A i \in 1..Len(up) : h.nodeDepth[up[i]] <= d

severEdge(h, from, to) ==
  IF ~Has(h.upEdges, to) THEN Ret(h, Err("no-edge", from, to, <<"up">>))
  ELSE IF findIndex(h.upEdges[to], from) = 0
  THEN Ret(h, Err("no-edge", from, to, <<"up">>))
  ELSE IF ~Has(h.downEdges, from)
  THEN Ret(h, Err("no-edge", from, to, <<"down">>))
  ELSE IF findIndex(h.downEdges[from], to) = 0
  THEN Ret(h, Err("no-edge", from, to, <<"down">>))
  ELSE
    LET upEdges == splice(h.upEdges[to], findIndex(h.upEdges[to], from))
        downEdges == splice(h.downEdges[from], findIndex(h.downEdges[from], to))
        h1 == [h EXCEPT !.upEdges[to] = upEdges, !.downEdges[from] = downEdges]
    IN IF Len(upEdges) = 0 THEN deleteNode(h1, to)
       ELSE IF ~Has(h1.nodeDepth, to)
       THEN Ret(h1, inconsistency("Missing depth", to, None))
       ELSE IF MissingDepthParent(h1, upEdges) # None
       THEN Ret(h1, inconsistency("Missing depth",
                                  MissingDepthParent(h1, upEdges), None))
       ELSE
         LET oldDepth == h1.nodeDepth[to]
             newDepth == MaxParentDepth(h1, upEdges) + 1
         IN IF newDepth # oldDepth
            THEN Ret([h1 EXCEPT
                        !.nodesOnLevel =
                           LevelAdd(LevelAdd(@, oldDepth, 0 - 1), newDepth, 1),
                        !.nodeDepth[to] = newDepth], Ok)
            ELSE Ret(h1, Ok)

\* `for (const childId of downEdges)` over the live array downEdges[node],
\* which severEdge splices while the loop runs; i is the iterator's index.
deleteNodeLoop(h, node, i) ==
  IF i > Len(h.downEdges[node]) THEN Ret(h, Ok)
  ELSE LET r == severEdge(h, node, h.downEdges[node][i])
       IN IF IsErr(r.res) THEN r ELSE deleteNodeLoop(r.h, node, i + 1)

deleteNode(h, node) ==
  LET h1 == [h EXCEPT !.nodes = MapDelete(@, node)]
  IN IF ~Has(h1.nodeDepth, node)
     THEN Ret(h1, inconsistency("Missing depth", node, None))
     ELSE
       LET h2 == [h1 EXCEPT
                    !.nodesOnLevel = LevelAdd(@, h1.nodeDepth[node], 0 - 1),
                    !.nodeDepth = MapDelete(@, node),
                    !.upEdges = MapDelete(@, node)]
       IN IF ~Has(h2.downEdges, node) THEN Ret(h2, Ok)
          ELSE deleteNodeLoop(h2, node, 1)

\* ------------------------------------------------------------------------
\* expandNode
\* ------------------------------------------------------------------------

\* expandError that looks for the recipes before it looks at the kind of
\* the node.
expandErrorRecipesFirst(h, nodeID) ==
  IF ~Has(h.nodes, nodeID) THEN Err("node-not-found", nodeID, None, <<>>)
  ELSE IF Len(recipesForResult(h.nodes[nodeID].item)) = 0
  THEN Err("no-recipes", nodeID, None, <<>>)
  ELSE IF Len(recipesForResult(h.nodes[nodeID].item)) # 1
  THEN Err("multiple-recipes", nodeID, None, <<>>)
  ELSE IF h.nodes[nodeID].type # "terminal"
  THEN Err("unsupported-node", nodeID, None, <<h.nodes[nodeID].type>>)
  ELSE Ok

\* The early returns of expandNode: the error it returns, or Ok when it
\* goes on to expand.
expandError(h, nodeID) ==
  IF ~Has(h.nodes, nodeID) THEN Err("node-not-found", nodeID, None, <<>>)
  ELSE IF h.nodes[nodeID].type # "terminal"
  THEN Err("unsupported-node", nodeID, None, <<h.nodes[nodeID].type>>)
  ELSE IF Len(recipesForResult(h.nodes[nodeID].item)) = 0
  THEN Err("no-recipes", nodeID, None, <<>>)
  ELSE IF Len(recipesForResult(h.nodes[nodeID].item)) # 1
  THEN Err("multiple-recipes", nodeID, None, <<>>)
  ELSE Ok

\* expandFailed after an id was taken from the allocator before the checks.
expandFailedAllocated(h, issued, err) ==
  [h |-> h, res |-> err, issued |-> issued + 1]

\* What expandNode hands back when it returns early.
expandFailed(h, issued, err) == [h |-> h, res |-> err, issued |-> issued]

\* expandLevels that counts one node however many children there are.
expandLevelsByOne(levels, depth, k) ==
  LevelAdd(IF depth = Len(levels) - 1 THEN Append(levels, 0) ELSE levels,
           depth + 1, 1)

\* nodesOnLevel after k children were placed below a node at `depth`.
expandLevels(levels, depth, k) ==
  LevelAdd(IF depth = Len(levels) - 1 THEN Append(levels, 0) ELSE levels,
           depth + 1, k)

\* nextNodeIDs with the increment before the read: `return ++nodesIssued`.
nextNodeIDsPre(issued, k) == [i \in 1..k |-> issued + i]

\* The ids that k successive calls of nextNodeID return when `issued` ids
\* were issued before: `return nodesIssued++`.
nextNodeIDs(issued, k) == [i \in 1..k |-> issued + i - 1]

\* expandAmount that takes the ingredient's amount as it stands.
expandAmountPlain(requiredAmount, amount) == amount

\* requiredAmount of a new child: `prevNode.requiredAmount * amount`.
expandAmount(requiredAmount, amount) == requiredAmount * amount

\* expandUpEdges that gives the expanded node the up-edge list of a child.
expandUpEdgesAll(upEdges, childIds, nodeID) ==
  [n \in (DOMAIN upEdges) \cup SeqToSet(childIds) \cup {nodeID} |->
     IF n \in SeqToSet(childIds) \cup {nodeID} THEN <<nodeID>>
     ELSE upEdges[n]]

\* `for (const childId of childIds) graph.upEdges.set(childId, [nodeID])`.
expandUpEdges(upEdges, childIds, nodeID) ==
  [n \in (DOMAIN upEdges) \cup SeqToSet(childIds) |->
     IF n \in SeqToSet(childIds) THEN <<nodeID>> ELSE upEdges[n]]

\* Returns the graph, the Result and the allocator's counter after the call.
expandNode(h, issued, nodeID) ==
  IF IsErr(expandError(h, nodeID))
  THEN expandFailed(h, issued, expandError(h, nodeID))
  ELSE
    LET prevNode == h.nodes[nodeID]
        recipe == recipesForResult(prevNode.item)[1]
        ingredients == Recipes[recipe].ingredients
        k == Len(ingredients)
        depth == IF Has(h.nodeDepth, nodeID) THEN h.nodeDepth[nodeID] ELSE 0
        replacementNode ==
          IntermediateNode(prevNode.id, recipe, madeIn(recipe)[1],
                           prevNode.amount)
        childIds == nextNodeIDs(issued, k)
        child(i) ==
          TerminalNode(childIds[i], ItemOf(ingredients[i]),
                       expandAmount(prevNode.amount, ingredients[i].amount),
                       recipesForResult(ItemOf(ingredients[i])))
        newIds == SeqToSet(childIds)
        nodes1 == [n \in (DOMAIN h.nodes) \cup newIds |->
                     IF n \in newIds THEN child(findIndex(childIds, n))
                     ELSE h.nodes[n]]
        nodes2 == MapSet(nodes1, replacementNode.id, replacementNode)
        depth1 == [n \in (DOMAIN h.nodeDepth) \cup newIds |->
                     IF n \in newIds THEN depth + 1 ELSE h.nodeDepth[n]]
        depth2 == MapSet(depth1, replacementNode.id, depth)
        up1 == expandUpEdges(h.upEdges, childIds, nodeID)
    IN [h |-> [h EXCEPT !.nodes = nodes2,
                        !.downEdges = MapSet(@, nodeID, childIds),
                        !.upEdges = up1,
                        !.nodeDepth = depth2,
                        !.nodesOnLevel = expandLevels(@, depth, k)],
        res |-> Ok,
        issued |-> issued + k]

\* ------------------------------------------------------------------------
\* collapseNode
\* ------------------------------------------------------------------------

RECURSIVE collapseLoop(_, _, _, _)

\* `for (const childId of Array.from(downEdges))`: edges is the copy.
collapseLoop(h, nodeID, edges, i) ==
  IF i > Len(edges) THEN Ret(h, Ok)
  ELSE LET r == severEdge(h, nodeID, edges[i])
       IN IF IsErr(r.res) THEN r ELSE collapseLoop(r.h, nodeID, edges, i + 1)

\* collapseError that turns away Terminals only, and so lets the Root in.
collapseErrorNotTerminal(h, nodeID) ==
  IF ~Has(h.nodes, nodeID) THEN Err("node-not-found", nodeID, None, <<>>)
  ELSE IF h.nodes[nodeID].type = "terminal"
  THEN Err("unsupported-node", nodeID, None, <<>>)
  ELSE IF ~Has(h.downEdges, nodeID)
  THEN inconsistency("Missing down edges from nonterminal node", nodeID, None)
  ELSE Ok

\* The early returns of collapseNode, or Ok when it goes on to collapse.
collapseError(h, nodeID) ==
  IF ~Has(h.nodes, nodeID) THEN Err("node-not-found", nodeID, None, <<>>)
  ELSE IF h.nodes[nodeID].type # "intermediate"
  THEN Err("unsupported-node", nodeID, None, <<>>)
  ELSE IF ~Has(h.downEdges, nodeID)
  THEN inconsistency("Missing down edges from nonterminal node", nodeID, None)
  ELSE Ok

\* The Terminal that takes the place of the collapsed Intermediate.
collapseTerminal(node) ==
  LET item == ItemOf(Recipes[node.recipe].results[1])
  IN TerminalNode(node.id, item, node.amount, recipesForResult(item))

\* collapseReplace that leaves the node's downEdges entry in the map.
collapseReplaceKeepEdges(h, nodeID, replacementNode) ==
  [h EXCEPT !.nodes = MapSet(@, replacementNode.id, replacementNode)]

\* `graph.nodes.set(replacementNode.id, replacementNode);
\*  graph.downEdges.delete(nodeID)`
collapseReplace(h, nodeID, replacementNode) ==
  [h EXCEPT !.nodes = MapSet(@, replacementNode.id, replacementNode),
            !.downEdges = MapDelete(@, nodeID)]

collapseNode(h, nodeID) ==
  IF IsErr(collapseError(h, nodeID)) THEN Ret(h, collapseError(h, nodeID))
  ELSE
    LET node == h.nodes[nodeID]
        r == collapseLoop(h, nodeID, h.downEdges[nodeID], 1)
    IN IF IsErr(r.res) THEN r
       ELSE Ret(collapseReplace(r.h, nodeID, collapseTerminal(node)), Ok)

\* ------------------------------------------------------------------------
\* canMerge / mergeNodes
\* ------------------------------------------------------------------------

\* The merge key; NoItem stands for undefined (a Root has no key).
nodeMergeItem(node) ==
  IF node.type = "root" THEN NoItem
  ELSE IF node.type = "intermediate"
  THEN ItemOf(Recipes[node.recipe].results[1])
  ELSE node.item

\* canMerge that compares the names of the two keys only.
canMergeNamesOnly(a, b) ==
  IF nodeMergeItem(a) = NoItem \/ nodeMergeItem(b) = NoItem THEN FALSE
  ELSE nodeMergeItem(a).name = nodeMergeItem(b).name

canMerge(a, b) ==
  IF nodeMergeItem(a) = NoItem \/ nodeMergeItem(b) = NoItem THEN FALSE
  ELSE itemEq(nodeMergeItem(a), nodeMergeItem(b))

\* Max that keeps the depth of the first node.
MaxFirst(a, b) == a

\* Math.max(aDepth, bDepth)
Max(a, b) == IF a >= b THEN a ELSE b

mergeDepths(h, node, withNode, into) ==
  IF ~Has(h.nodeDepth, node)
  THEN Ret(h, inconsistency("Missing depth", node, None))
  ELSE IF ~Has(h.nodeDepth, withNode)
  THEN Ret(h, inconsistency("Missing depth", withNode, None))
  ELSE
    LET aDepth == h.nodeDepth[node]
        bDepth == h.nodeDepth[withNode]
        depth == Max(aDepth, bDepth)
        nd1 == IF into # node THEN MapDelete(h.nodeDepth, node)
               ELSE h.nodeDepth
        nd2 == MapDelete(nd1, withNode)
    IN Ret([h EXCEPT
              !.nodeDepth = MapSet(nd2, into, depth),
              !.nodesOnLevel =
                 LevelAdd(LevelAdd(LevelAdd(@, bDepth, 0 - 1),
                                   aDepth, 0 - 1), depth, 1)], Ok)

\* graph.downEdges.delete(k), remembering the array for the references
\* the running call still holds.
DownDelete(h, k) ==
  IF Has(h.downEdges, k)
  THEN [h EXCEPT !.downEdges = MapDelete(@, k),
                 !.detached = MapSet(@, k, h.downEdges[k])]
  ELSE h

\* The contents of the array that was downEdges[k] when the call took its
\* reference: still in the map, or removed from it and unchanged since.
DownArray(h, k) ==
  IF Has(h.downEdges, k) THEN h.downEdges[k] ELSE h.detached[k]

\* `downEdges[oldEdge] = replacementNode.id;
\*  replacementUpEdges.push(upnode.id)`
\* rewire that forgets to push the parent to the replacement's upEdges.
rewireNoPush(h, parentId, withNode, replacement) ==
  LET oldEdge == findIndex(h.downEdges[parentId], withNode)
  IN [h EXCEPT !.downEdges[parentId][oldEdge] = replacement]

rewire(h, parentId, withNode, replacement) ==
  LET oldEdge == findIndex(h.downEdges[parentId], withNode)
      h1 == [h EXCEPT !.downEdges[parentId][oldEdge] = replacement]
  IN [h1 EXCEPT !.upEdges[replacement] = Append(@, parentId)]

\* `graph.nodes.set(replacementNode.id, replacementNode);
\*  graph.nodes.delete(withNode.id)`
\* replaceNodes that forgets to delete the absorbed node.
replaceNodesKeep(nodes, replacementNode, withNode) ==
  MapSet(nodes, replacementNode.id, replacementNode)

replaceNodes(nodes, replacementNode, withNode) ==
  MapDelete(MapSet(nodes, replacementNode.id, replacementNode), withNode)

RECURSIVE rewireUpnodes(_, _, _, _, _)

\* iterate(upnodes(graph, withNode.id), callback) of mergeTerminals and
\* mergeIntermediates: every parent of withNode gets replacement in place
\* of withNode in its downEdges and is pushed to the replacement's upEdges.
\* i is the generator's index into the live array upEdges[withNode]; n0 is
\* the array's length when the loop started.  When replacement and withNode
\* are the same id the callback pushes to the array the generator walks:
\* once the n0 original entries have passed, the loop never ends.
rewireUpnodes(h, withNode, replacement, i, n0) ==
  IF ~Has(h.upEdges, withNode) THEN Ret(h, Ok)
  ELSE IF i > Len(h.upEdges[withNode]) THEN Ret(h, Ok)
  ELSE IF replacement = withNode /\ i > n0 THEN Ret(h, Hang)
  ELSE
    LET parentId == h.upEdges[withNode][i]
    IN IF ~Has(h.nodes, parentId)
       THEN Ret(h, inconsistency(
                "While traversing upnodes, found edge to non-existent node",
                None, parentId))
       ELSE IF ~Has(h.downEdges, parentId)
       THEN Ret(h, inconsistency(
                "While merging intermediates, found upnode with no down edges",
                parentId, withNode))
       ELSE IF findIndex(h.downEdges[parentId], withNode) = 0
       THEN Ret(h, inconsistency(
                "While merging intermediates, found upnode with no edge to withNode",
                parentId, withNode))
       ELSE
         rewireUpnodes(rewire(h, parentId, withNode, replacement),
                       withNode, replacement, i + 1, n0)

mergeTerminals(h, node, withNode) ==
  IF ~itemEq(node.item, withNode.item)
  THEN Ret(h, Err("incompatible-node-items", node.id, withNode.id, <<>>))
  ELSE
    LET replacementNode ==
          TerminalNode(node.id, node.item, node.amount + withNode.amount,
                       node.producedByRecipes)
        r1 == mergeDepths(h, node.id, withNode.id, replacementNode.id)
        h2 == [r1.h EXCEPT
                 !.nodes = replaceNodes(@, replacementNode, withNode.id)]
        r2 == rewireUpnodes(h2, withNode.id, replacementNode.id, 1,
                            IF Has(h2.upEdges, withNode.id)
                            THEN Len(h2.upEdges[withNode.id]) ELSE 0)
    IN IF IsErr(r1.res) THEN r1
       ELSE IF ~Has(h2.upEdges, replacementNode.id)
       THEN Ret(h2, inconsistency(
                "While merging intermediates, found node with no up edges",
                replacementNode.id, None))
       ELSE IF IsErr(r2.res) THEN r2
       ELSE Ret(DownDelete([r2.h EXCEPT
                              !.upEdges = MapDelete(@, withNode.id)],
                           withNode.id), Ok)

RECURSIVE unlinkDownnodes(_, _, _)

\* iterate(downnodes(graph, withNode.id), callback) of mergeIntermediates:
\* withNode is removed from the upEdges of each of its children.
unlinkDownnodes(h, withNode, i) ==
  IF ~Has(h.downEdges, withNode) THEN Ret(h, Ok)
  ELSE IF i > Len(h.downEdges[withNode]) THEN Ret(h, Ok)
  ELSE
    LET childId == h.downEdges[withNode][i]
    IN IF ~Has(h.nodes, childId)
       THEN Ret(h, inconsistency(
                "While traversing downnodes, found edge to non-existent node",
                None, childId))
       ELSE IF ~Has(h.upEdges, childId)
       THEN Ret(h, inconsistency(
                "While merging intermediates, found downnode with no up edges",
                childId, withNode))
       ELSE IF findIndex(h.upEdges[childId], withNode) = 0
       THEN Ret(h, inconsistency(
                "While merging intermediates, found downnode with no edge to withNode",
                childId, withNode))
       ELSE unlinkDownnodes(
              [h EXCEPT !.upEdges[childId] =
                          splice(@, findIndex(@, withNode))],
              withNode, i + 1)

\* The first entry of `right` that has no node, or None.
MissingNode(h, right) ==
  IF \E i \in 1..Len(right) : ~Has(h.nodes, right[i])
  THEN right[CHOOSE i \in 1..Len(right) : ~Has(h.nodes, right[i])
               /\ \A j \in 1..(i-1) : Has(h.nodes, right[j])]
  ELSE None

\* rightNodes.find(...): index of the first right node that is not a Root
\* and has node's merge key; 0 when there is none.
FindRight(node, rightNodes) ==
  LET match(i) == rightNodes[i].type # "root"
                  /\ itemEq(nodeMergeItem(node), nodeMergeItem(rightNodes[i]))
  IN IF \E i \in 1..Len(rightNodes) : match(i)
     THEN CHOOSE i \in 1..Len(rightNodes) :
            match(i) /\ \A j \in 1..(i-1) : ~match(j)
     ELSE 0

RECURSIVE mergeNodesInner(_, _, _), mergeIntermediates(_, _, _),
          zipDownstreamNodes(_, _, _, _, _)

\* iterate(zipDownstreamNodes(graph, targetDownEdges, fromDownEdges), ...)
\* after the generator has collected rightNodes.  target is the id whose
\* downEdges array is walked live (hadTarget is FALSE when the code took
\* the fresh array of `?? []`); i is the generator's index into it.
zipDownstreamNodes(h, target, hadTarget, rightNodes, i) ==
  LET left == IF hadTarget THEN DownArray(h, target) ELSE <<>>
  IN IF i > Len(left) THEN Ret(h, Ok)
     ELSE IF ~Has(h.nodes, left[i])
     THEN Ret(h, inconsistency(
              "While merging intermediates, found edge to non-existent node",
              None, left[i]))
     ELSE IF h.nodes[left[i]].type = "root"
     THEN Ret(h, inconsistency(
              "While merging intermediates, found edge to root node",
              left[i], left[i]))
     ELSE IF FindRight(h.nodes[left[i]], rightNodes) = 0
     THEN Ret(h, inconsistency(
              "While merging intermediates, found intermediates with different recipe items",
              left[i], None))
     ELSE
       LET node == h.nodes[left[i]]
           rightNode == rightNodes[FindRight(node, rightNodes)]
           r == mergeNodesInner(h, node, rightNode)
       IN IF IsErr(r.res)
          THEN Ret(r.h, context(r.res,
                                ErrRec("merging-downstream", node.id,
                                       rightNode.id, <<>>)))
          ELSE zipDownstreamNodes(r.h, target, hadTarget, rightNodes, i + 1)

mergeIntermediates(h, node, withNode) ==
  IF ~itemEq(Recipes[node.recipe].results[1],
             Recipes[withNode.recipe].results[1])
  THEN Ret(h, Err("incompatible-node-items", node.id, withNode.id, <<>>))
  ELSE
    LET r1 == mergeDepths(h, node.id, withNode.id, node.id)
        replacementNode ==
          IntermediateNode(node.id, node.recipe, node.machine,
                           node.amount + withNode.amount)
        h2 == [r1.h EXCEPT
                 !.nodes = replaceNodes(@, replacementNode, withNode.id)]
        hadTarget == Has(h2.downEdges, node.id)
        hadFrom == Has(h2.downEdges, withNode.id)
        r2 == rewireUpnodes(h2, withNode.id, replacementNode.id, 1,
                            IF Has(h2.upEdges, withNode.id)
                            THEN Len(h2.upEdges[withNode.id]) ELSE 0)
        r3 == unlinkDownnodes(r2.h, withNode.id, 1)
        fromDownEdges == IF hadFrom THEN r3.h.downEdges[withNode.id] ELSE <<>>
        h4 == DownDelete([r3.h EXCEPT !.upEdges = MapDelete(@, withNode.id)],
                         withNode.id)
    IN IF IsErr(r1.res) THEN r1
       ELSE IF ~Has(h2.upEdges, node.id)
       THEN Ret(h2, inconsistency(
                "While merging intermediates, found node with no up edges",
                node.id, None))
       ELSE IF IsErr(r2.res) THEN r2
       ELSE IF IsErr(r3.res) THEN r3
       ELSE IF MissingNode(h4, fromDownEdges) # None
       THEN Ret(h4, inconsistency(
                "While merging intermediates, found edge to non-existent node",
                None, MissingNode(h4, fromDownEdges)))
       ELSE zipDownstreamNodes(h4, node.id, hadTarget,
                               [i \in 1..Len(fromDownEdges) |->
                                  h4.nodes[fromDownEdges[i]]], 1)

mergeNodesInner(h, node, withNode) ==
  IF node.type = "terminal" /\ withNode.type = "terminal"
  THEN mergeTerminals(h, node, withNode)
  ELSE IF node.type = "intermediate" /\ withNode.type = "intermediate"
  THEN mergeIntermediates(h, node, withNode)
  ELSE IF node.type # "root" /\ withNode.type # "root"
  THEN Ret(h, Err("incompatible-node-types", node.id, withNode.id,
                  <<node.type, withNode.type>>))
  ELSE Ret(h, Err("<throw>", node.id, withNode.id, <<"Unreachable">>))

\* mergeNodes that classifies the kinds of the two nodes before it looks
\* for the Root.
mergeNodesKindsFirst(h, node, withNode) ==
  IF ~Has(h.nodes, node) THEN Ret(h, Err("node-not-found", node, None, <<>>))
  ELSE IF ~Has(h.nodes, withNode)
  THEN Ret(h, Err("node-not-found", withNode, None, <<>>))
  ELSE IF h.nodes[node].type = h.nodes[withNode].type
  THEN Ret(h, Err("incompatible-node-items", node, withNode, <<>>))
  ELSE IF h.nodes[node].type = "root" \/ h.nodes[withNode].type = "root"
  THEN Ret(h, Err("incompatible-node-types", node, withNode,
                  <<h.nodes[node].type, h.nodes[withNode].type>>))
  ELSE mergeNodesInner(h, h.nodes[node], h.nodes[withNode])

mergeNodes(h, node, withNode) ==
  IF ~Has(h.nodes, node) THEN Ret(h, Err("node-not-found", node, None, <<>>))
  ELSE IF ~Has(h.nodes, withNode)
  THEN Ret(h, Err("node-not-found", withNode, None, <<>>))
  ELSE IF h.nodes[node].type = "root" \/ h.nodes[withNode].type = "root"
  THEN Ret(h, Err("incompatible-node-types", node, withNode,
                  <<h.nodes[node].type, h.nodes[withNode].type>>))
  ELSE mergeNodesInner(h, h.nodes[node], h.nodes[withNode])

\* ------------------------------------------------------------------------
\* State machine: a caller applying the three mutators to one graph
\* ------------------------------------------------------------------------

VARIABLES
  graph,        \* the RecipeGraph the mutators work on
  nodesIssued,  \* the allocator's counter (`let nodesIssued = 0`)
  rootId,       \* the id initialGraph gave the Root
  rootRecipe,   \* the recipe initialGraph was called with
  lastOp,       \* the last call: [type, node, with]
  lastResult,   \* the Result the last call returned
  allOk,        \* every call so far returned Ok
  hung,         \* the last call never returned
  noEffect,     \* the last call changed nothing (an error, or canMerge)
  answer,       \* what canMerge returned, when it was the last call
  taskQueue,    \* the scheduler's queue (`const taskQueue: Task[] = []`)
  scheduleId,   \* the handle of the requested callback, or None
  running,      \* where the run loop that holds the thread stands
  awaiting,     \* the tasks on which a run loop is suspended in `await`
  tasks,        \* the kind of every task handed to scheduleTilDeadline
  started,      \* the tasks whose function was called, in call order
  inFlight,     \* the asynchronous tasks started and not yet finished
  settled       \* the tasks whose promise was resolved or rejected

graphVars == <<graph, nodesIssued, rootId, rootRecipe, lastOp, lastResult,
               allOk, hung, noEffect, answer>>

schedVars == <<taskQueue, scheduleId, running, awaiting, tasks, started,
               inFlight, settled>>

vars == <<graphVars, schedVars>>

\* The scheduler's module state when the module was loaded and
\* scheduleTilDeadline was not called yet.
SchedulerLoaded ==
  /\ taskQueue = <<>>
  /\ scheduleId = None
  /\ running = "no"
  /\ awaiting = {}
  /\ tasks = <<>>
  /\ started = <<>>
  /\ inFlight = {}
  /\ settled = {}

\* The five indices of a helper's graph, without the model's bookkeeping.
Indices(h) ==
  [nodes |-> h.nodes, downEdges |-> h.downEdges, upEdges |-> h.upEdges,
   nodeDepth |-> h.nodeDepth, nodesOnLevel |-> h.nodesOnLevel]

\* The graph as a call receives it.
Heap(g) ==
  [nodes |-> g.nodes, downEdges |-> g.downEdges, upEdges |-> g.upEdges,
   nodeDepth |-> g.nodeDepth, nodesOnLevel |-> g.nodesOnLevel,
   detached |-> EmptyMap]

Op(type, node, with) == [type |-> type, node |-> node, with |-> with]

\* What the history variables keep of a call.  Of a failed call they keep
\* the type of the call and the kinds (and reasons) of the errors in the
\* chain; the node ids an error carries are kept for merging-downstream
\* only, the context that names the pair of children being merged.
ReportOp(op, res) ==
  IF IsOk(res) \/ ChainHas(res, "<hang>") THEN op
  ELSE Op(op.type, None, None)
ReportResult(res) ==
  [i \in 1..Len(res) |->
     IF res[i].kind = "merging-downstream" THEN res[i]
     ELSE ErrRec(res[i].kind, None, None, res[i].info)]

\* Ids a caller may name: the id of every node of the graph and one id
\* that names none (every mutator starts by looking its arguments up in
\* nodes, and treats all absent ids alike).
CallIds == (DOMAIN graph.nodes) \cup {nodesIssued}

\* The state after the recipe r was selected as the first root recipe.
InitFor(roots) ==
  \E r \in roots :
    /\ graph = Indices(initialGraph(r, 0))
    /\ nodesIssued = 1 + Len(Recipes[r].ingredients)
    /\ rootId = 0
    /\ rootRecipe = r
    /\ lastOp = Op("init", None, None)
    /\ lastResult = Ok
    /\ allOk = TRUE
    /\ hung = FALSE
    /\ noEffect = FALSE
    /\ answer = FALSE
    /\ SchedulerLoaded

\* A recipe set in which no item is an ingredient of itself.
Init == InitFor(PlainRecipes)

\* The recipe set in which an item is an ingredient of itself.
InitCyclic == InitFor(CyclicRecipes)

\* The recipe set in which an Intermediate has an ingredient that is the
\* second result of its only recipe.
InitNested == InitFor(NestedRecipes)

\* A call that returns an error and leaves the graph and the allocator as
\* they were has no influence on what any later call does: the mutators
\* read nothing but the graph and nodesIssued.  The state after such a call
\* is kept (so that the failure can be examined), but the calls that follow
\* it are explored from the state before it, where the same graph and
\* counter are found: that is the guard ~noEffect of the three calls.
\* Every graph, and every call on it, that a caller can produce is still
\* explored.
\* The caller's view of a finished (or never finishing) call.
Returned(op, h, res, issued) ==
  /\ noEffect' = (IsErr(res) /\ ~ChainHas(res, "<hang>")
                   /\ Indices(h) = graph /\ issued = nodesIssued)
  /\ lastOp' = ReportOp(op, res)
  /\ lastResult' = ReportResult(res)
  /\ nodesIssued' = issued
  /\ hung' = ChainHas(res, "<hang>")
  /\ graph' = IF ChainHas(res, "<hang>") THEN graph ELSE Indices(h)
  /\ allOk' = (allOk /\ IsOk(res))
  /\ answer' = FALSE
  /\ UNCHANGED <<rootId, rootRecipe>>
  /\ UNCHANGED schedVars

Expand(n) ==
  /\ ~hung /\ ~noEffect
  /\ LET r == expandNode(Heap(graph), nodesIssued, n)
     IN /\ r.issued <= MaxIssued
        /\ Returned(Op("expand", n, None), r.h, r.res, r.issued)

Collapse(n) ==
  /\ ~hung /\ ~noEffect
  /\ LET r == collapseNode(Heap(graph), n)
     IN Returned(Op("collapse", n, None), r.h, r.res, nodesIssued)

Merge(n, w) ==
  /\ ~hung /\ ~noEffect
  /\ LET r == mergeNodes(Heap(graph), n, w)
     IN Returned(Op("merge", n, w), r.h, r.res, nodesIssued)

Next ==
  \/ \E n \in CallIds : Expand(n)
  \/ \E n \in CallIds : Collapse(n)
  \/ \E n \in CallIds, w \in CallIds : Merge(n, w)

Spec == Init /\ [][Next]_vars

SpecCyclic == InitCyclic /\ [][Next]_vars

\* The same recipe set with the item I as the only product asked for.
InitCycleI == InitFor({"rI"})

SpecCycleI == InitCycleI /\ [][Next]_vars

SpecNested == InitNested /\ [][Next]_vars

\* canMerge(a, b) on two nodes of the graph, as the canvas calls it while a
\* box is dragged over another: it reads the two nodes and returns a
\* boolean.
CanMerge(a, b) ==
  /\ ~hung /\ ~noEffect
  /\ answer' = canMerge(graph.nodes[a], graph.nodes[b])
  /\ lastOp' = Op("canMerge", a, b)
  /\ lastResult' = Ok
  /\ noEffect' = TRUE
  /\ UNCHANGED <<graph, nodesIssued, rootId, rootRecipe, allOk, hung>>
  /\ UNCHANGED schedVars

NextCanvas ==
  \/ Next
  \/ \E a \in DOMAIN graph.nodes, b \in DOMAIN graph.nodes : CanMerge(a, b)

\* The root recipes of the graphs on which canMerge is asked.
CanvasRecipes == {"rT", "rS"}

\* A caller that also asks canMerge.
SpecCanvas == InitFor(CanvasRecipes) /\ [][NextCanvas]_vars

\* ------------------------------------------------------------------------
\* State machine: the application (main.ts) driving the graph
\* ------------------------------------------------------------------------

\* The context the wrappers expand / collapse / merge of main.ts put around
\* the mutator's error: an object with the ids and no kind.
CallContext(n, w) == ErrRec("", n, w, <<>>)

\* handle that never puts the backup back.
handleKeep(backupGraph, h, res) == h

\* What handle leaves in globalGraph: the backup taken before the call
\* when the error chain has an inconsistent-graph error, else the graph
\* the mutator worked on.
handle(backupGraph, h, res) ==
  IF IsErr(res) /\ ChainHas(res, "inconsistent-graph")
  THEN Heap(backupGraph) ELSE h

\* onSelected: a recipe is chosen and globalGraph becomes its initialGraph;
\* the allocator goes on counting.
Select(r) ==
  /\ ~hung /\ ~noEffect
  /\ nodesIssued + 1 + Len(Recipes[r].ingredients) <= MaxIssued
  /\ graph' = Indices(initialGraph(r, nodesIssued))
  /\ nodesIssued' = nodesIssued + 1 + Len(Recipes[r].ingredients)
  /\ rootId' = nodesIssued
  /\ rootRecipe' = r
  /\ lastOp' = Op("init", None, None)
  /\ lastResult' = Ok
  /\ allOk' = TRUE
  /\ hung' = FALSE
  /\ noEffect' = FALSE
  /\ answer' = FALSE
  /\ UNCHANGED schedVars

HandleExpand(n) ==
  /\ ~hung /\ ~noEffect
  /\ LET r == expandNode(Heap(graph), nodesIssued, n)
         res == context(r.res, CallContext(n, None))
     IN /\ r.issued <= MaxIssued
        /\ Returned(Op("expand", n, None), handle(graph, r.h, res), res,
                    r.issued)

HandleCollapse(n) ==
  /\ ~hung /\ ~noEffect
  /\ LET r == collapseNode(Heap(graph), n)
         res == context(r.res, CallContext(n, None))
     IN Returned(Op("collapse", n, None), handle(graph, r.h, res), res,
                 nodesIssued)

HandleMerge(n, w) ==
  /\ ~hung /\ ~noEffect
  /\ LET r == mergeNodes(Heap(graph), n, w)
         res == context(r.res, CallContext(n, w))
     IN Returned(Op("merge", n, w), handle(graph, r.h, res), res,
                 nodesIssued)

NextApp ==
  \/ \E r \in PlainRecipes : Select(r)
  \/ \E n \in CallIds : HandleExpand(n)
  \/ \E n \in CallIds : HandleCollapse(n)
  \/ \E n \in CallIds, w \in CallIds : HandleMerge(n, w)

SpecApp == Init /\ [][NextApp]_vars

\* ------------------------------------------------------------------------
\* State machine: the idle-time task scheduler
\* ------------------------------------------------------------------------

\* What a task handed to scheduleTilDeadline does when the queue's closure
\* runs it: "sync" returns a value or throws, "async" returns a promise
\* that settles later, "aborted" is a task whose signal is aborted when its
\* turn comes (the closure rejects and never calls the task).
TaskKinds == {"sync", "async", "aborted"}

\* `if (scheduleId !== undefined) return`, else the handle of the callback
\* requested with requestIdleCallback or setTimeout.
reschedule(id) == IF id # None THEN id ELSE 1

\* A caller hands the scheduler a task.  A caller runs only when no run
\* loop holds the thread; a run loop suspended in `await` does not.
scheduleTilDeadline(kind) ==
  /\ running = "no"
  /\ Len(tasks) < MaxTasks
  /\ tasks' = Append(tasks, kind)
  /\ taskQueue' = Append(taskQueue, Len(tasks) + 1)
  /\ scheduleId' = reschedule(scheduleId)
  /\ UNCHANGED <<running, awaiting, started, inFlight, settled>>
  /\ UNCHANGED graphVars

\* The requested callback fires and enters runLoop: `scheduleId =
\* undefined`, `start = performance.now()`.  The loop stands at its first
\* shouldYield, where `diff < minTaskTimeMs`.
runLoop ==
  /\ running = "no"
  /\ scheduleId # None
  /\ scheduleId' = None
  /\ running' = "early"
  /\ UNCHANGED <<taskQueue, awaiting, tasks, started, inFlight, settled>>
  /\ UNCHANGED graphVars

\* shouldYield returns true (the deadline or maxTaskTimeMs has passed, or
\* input is pending): `reschedule(); return`.
yield ==
  /\ running = "late"
  /\ scheduleId' = reschedule(scheduleId)
  /\ running' = "no"
  /\ UNCHANGED <<taskQueue, awaiting, tasks, started, inFlight, settled>>
  /\ UNCHANGED graphVars

\* shouldYield returns false and the queue is empty: `if (!nextTask)
\* return`.
loopReturn ==
  /\ running # "no"
  /\ taskQueue = <<>>
  /\ running' = "no"
  /\ UNCHANGED <<taskQueue, scheduleId, awaiting, tasks, started, inFlight,
                 settled>>
  /\ UNCHANGED graphVars

\* shouldYield returns false and the task shifted from the queue settles
\* its promise before the closure returns; `await undefined` gives the
\* loop the thread back at once, before or after minTaskTimeMs.
runNow ==
  /\ running # "no"
  /\ taskQueue # <<>>
  /\ tasks[Head(taskQueue)] # "async"
  /\ taskQueue' = Tail(taskQueue)
  /\ started' = IF tasks[Head(taskQueue)] = "aborted" THEN started
                ELSE Append(started, Head(taskQueue))
  /\ settled' = settled \cup {Head(taskQueue)}
  /\ running' \in {"early", "late"}
  /\ UNCHANGED <<scheduleId, awaiting, tasks, inFlight>>
  /\ UNCHANGED graphVars

\* shouldYield returns false and the task shifted from the queue returns
\* a promise: the loop is suspended in `await nextTask()`.
runAsync ==
  /\ running # "no"
  /\ taskQueue # <<>>
  /\ tasks[Head(taskQueue)] = "async"
  /\ taskQueue' = Tail(taskQueue)
  /\ started' = Append(started, Head(taskQueue))
  /\ inFlight' = inFlight \cup {Head(taskQueue)}
  /\ awaiting' = awaiting \cup {Head(taskQueue)}
  /\ running' = "no"
  /\ UNCHANGED <<scheduleId, tasks, settled>>
  /\ UNCHANGED graphVars

\* The promise of the asynchronous task t settles: the closure's `.then`
\* or `.catch` settles the caller's promise and the run loop awaiting t
\* goes on.
finish(t) ==
  /\ running = "no"
  /\ t \in inFlight
  /\ inFlight' = inFlight \ {t}
  /\ settled' = settled \cup {t}
  /\ awaiting' = awaiting \ {t}
  /\ running' \in {"early", "late"}
  /\ UNCHANGED <<taskQueue, scheduleId, tasks, started>>
  /\ UNCHANGED graphVars

NextScheduler ==
  \/ \E kind \in TaskKinds : scheduleTilDeadline(kind)
  \/ runLoop
  \/ yield
  \/ loopReturn
  \/ runNow
  \/ runAsync
  \/ \E t \in inFlight : finish(t)

\* The scheduler beside a graph nobody touches.
InitScheduler == InitFor({"rB"})

SpecScheduler == InitScheduler /\ [][NextScheduler]_vars

\* The browser fires every requested callback, a run loop that holds the
\* thread goes on, and every asynchronous task finishes.
SpecSchedulerFair ==
  /\ SpecScheduler
  /\ WF_vars(runLoop)
  /\ WF_vars(yield \/ loopReturn \/ runNow \/ runAsync)
  /\ \A t \in 1..MaxTasks : WF_vars(t \in inFlight /\ finish(t))

\* ------------------------------------------------------------------------
\* Vocabulary of the properties
\* ------------------------------------------------------------------------

NodeIds(g) == DOMAIN g.nodes
RootIds(g) == {n \in NodeIds(g) : g.nodes[n].type = "root"}

\* Number of ids whose nodeDepth is d.
CountAtDepth(g, d) == Cardinality({n \in DOMAIN g.nodeDepth : g.nodeDepth[n] = d})

\* nodesOnLevel[d], 0 beyond the end of the array.
LevelCount(g, d) ==
  IF d + 1 <= Len(g.nodesOnLevel) THEN g.nodesOnLevel[d + 1] ELSE 0

\* Depths that occur in nodeDepth or index nodesOnLevel.
Depths(g) ==
  {g.nodeDepth[n] : n \in DOMAIN g.nodeDepth} \cup 0..(Len(g.nodesOnLevel) - 1)

\* Every id an edge table mentions, as a key or as a list element.
EdgeIds(g) ==
  (DOMAIN g.downEdges) \cup (DOMAIN g.upEdges)
  \cup UNION {SeqToSet(g.downEdges[a]) : a \in DOMAIN g.downEdges}
  \cup UNION {SeqToSet(g.upEdges[a]) : a \in DOMAIN g.upEdges}

AllIds(g) == NodeIds(g) \cup EdgeIds(g) \cup DOMAIN g.nodeDepth

IsDown(g, a, b) == Has(g.downEdges, a) /\ b \in SeqToSet(g.downEdges[a])
IsUp(g, b, a) == Has(g.upEdges, b) /\ a \in SeqToSet(g.upEdges[b])

\* ------------------------------------------------------------------------
\* C1  Level-count consistency
\* ------------------------------------------------------------------------

\* C1: after any sequence of calls that each returned Ok, nodesOnLevel[d]
\* is the number of ids whose nodeDepth is d, for every depth d (0 beyond
\* the end of nodesOnLevel).
LevelCountConsistency ==
  allOk => \A d \in Depths(graph) : LevelCount(graph, d) = CountAtDepth(graph, d)

\* ------------------------------------------------------------------------
\* C2  Edge symmetry
\* ------------------------------------------------------------------------

\* C2: after any sequence of successful calls, b is in downEdges[a] exactly
\* when a is in upEdges[b].
EdgeSymmetry ==
  allOk => \A a \in AllIds(graph), b \in AllIds(graph) :
             IsDown(graph, a, b) <=> IsUp(graph, b, a)

\* A merge rewired a parent: the survivor has two up-edges, each matched by
\* a down-edge.
EdgeSymmetryWitness ==
  /\ allOk /\ lastOp.type = "merge"
  /\ Has(graph.upEdges, lastOp.node)
  /\ Len(graph.upEdges[lastOp.node]) = 2
  /\ \A p \in SeqToSet(graph.upEdges[lastOp.node]) :
       IsDown(graph, p, lastOp.node)

\* ------------------------------------------------------------------------
\* C3  Depth correctness
\* ------------------------------------------------------------------------

\* 1 + the largest nodeDepth among the ids of upEdges[n].
DepthFromParents(g, n) ==
  1 + (CHOOSE d \in {g.nodeDepth[p] : p \in SeqToSet(g.upEdges[n])} :
         \A p \in SeqToSet(g.upEdges[n]) : g.nodeDepth[p] <= d)

\* C3: after any sequence of successful calls, every non-root node has
\* depth 1 + the maximum depth of its parents.
\* (Stated for the nodes whose parents all have a depth, so that a
\* violation is one of the depth arithmetic and not of a missing entry.)
DepthCorrectness ==
  allOk => \A n \in NodeIds(graph) \ RootIds(graph) :
             ( /\ Has(graph.upEdges, n) /\ Len(graph.upEdges[n]) > 0
               /\ Has(graph.nodeDepth, n)
               /\ \A p \in SeqToSet(graph.upEdges[n]) : Has(graph.nodeDepth, p) )
             => graph.nodeDepth[n] = DepthFromParents(graph, n)

\* ------------------------------------------------------------------------
\* C4  Reachability
\* ------------------------------------------------------------------------

\* C4: after any sequence of successful calls, every node other than the
\* Root has an upEdges entry that is not empty.
Reachability ==
  allOk => \A n \in NodeIds(graph) \ RootIds(graph) :
             Has(graph.upEdges, n) /\ Len(graph.upEdges[n]) > 0

\* ------------------------------------------------------------------------
\* C5  Edges name nodes
\* ------------------------------------------------------------------------

\* C5: after any sequence of successful calls, every id that appears in
\* upEdges or downEdges, as a key or as an element, is a key of nodes.
EdgesNameNodes ==
  allOk => EdgeIds(graph) \subseteq NodeIds(graph)

\* ------------------------------------------------------------------------
\* C6  The Root
\* ------------------------------------------------------------------------

\* C6: after any sequence of calls, successful or failing, nodes has exactly
\* one node of type root, with the id, recipe and kind initialGraph gave
\* it, at depth 0 and without up-edges; and no call that names the Root
\* returns Ok (lastOp keeps the ids of a call unless it returned an error).
RootUnchanged ==
  /\ RootIds(graph) = {rootId}
  /\ graph.nodes[rootId].id = rootId
  /\ graph.nodes[rootId].recipe = rootRecipe
  /\ graph.nodes[rootId].type = "root"
  /\ Has(graph.nodeDepth, rootId) /\ graph.nodeDepth[rootId] = 0
  /\ (Has(graph.upEdges, rootId) => Len(graph.upEdges[rootId]) = 0)
  /\ \A n \in NodeIds(graph) : ~IsUp(graph, rootId, n)
  /\ lastOp.node # rootId /\ lastOp.with # rootId

\* A merge that named the Root returned incompatible-node-types, on a graph
\* that an earlier failing call left changed.
RootUnchangedWitness ==
  /\ ~allOk
  /\ lastOp.type = "merge"
  /\ Len(lastResult) = 1
  /\ lastResult[1].kind = "incompatible-node-types"
  /\ "root" \in SeqToSet(lastResult[1].info)
  /\ ~(EdgeIds(graph) \subseteq NodeIds(graph))

\* ------------------------------------------------------------------------
\* C7  Errors other than inconsistent-graph leave the graph alone
\* ------------------------------------------------------------------------

\* C7: when a call returns an error whose chain has no inconsistent-graph
\* error, the five indices are what they were before the call.
UserErrorsKeepGraph ==
  [][(IsErr(lastResult') /\ ~hung'
      /\ ~ChainHas(lastResult', "inconsistent-graph")) => graph' = graph]_vars

\* ------------------------------------------------------------------------
\* C8  Merging Intermediates whose children do not pair up
\* ------------------------------------------------------------------------

Children(g, n) == IF Has(g.downEdges, n) THEN g.downEdges[n] ELSE <<>>

\* The children of n by index that cannot be paired with a child of w: no
\* child of w has the same merge key, or the first one that has it is of
\* the other kind.
Mismatched(g, n, w) ==
  {i \in 1..Len(Children(g, n)) :
     LET c == g.nodes[Children(g, n)[i]]
         rights == [j \in 1..Len(Children(g, w)) |-> g.nodes[Children(g, w)[j]]]
     IN \/ FindRight(c, rights) = 0
        \/ rights[FindRight(c, rights)].type # c.type}

MergeablePair(g, n, w) ==
  /\ n # w
  /\ Has(g.nodes, n) /\ Has(g.nodes, w)
  /\ g.nodes[n].type = "intermediate" /\ g.nodes[w].type = "intermediate"
  /\ canMerge(g.nodes[n], g.nodes[w])
  /\ \A c \in SeqToSet(Children(g, n)) \cup SeqToSet(Children(g, w)) :
       Has(g.nodes, c)

\* C8: mergeNodes on two Intermediates with the same primary output whose
\* children cannot be paired one-to-one returns an error and leaves the
\* graph as it was before the call.
MismatchedMergeKeepsGraph ==
  [][\A n \in NodeIds(graph), w \in NodeIds(graph) :
       (MergeablePair(graph, n, w) /\ Mismatched(graph, n, w) # {}
        /\ Merge(n, w))
       => (IsErr(lastResult') /\ graph' = graph)]_vars

\* ------------------------------------------------------------------------
\* C9  A failing expandNode changes nothing
\* ------------------------------------------------------------------------

\* The cases in which expandNode must fail: the id is absent, the node is
\* not a Terminal, or its item has no or several producing recipes.
ExpandMustFail(g, n) ==
  \/ ~Has(g.nodes, n)
  \/ g.nodes[n].type # "terminal"
  \/ Len(recipesForResult(g.nodes[n].item)) # 1

\* C9: expandNode returns Ok in none of these cases (lastOp keeps the node
\* of a call that returned Ok), and whenever it returns an error the graph
\* is unchanged and no NodeID was allocated.
ExpandFailureKeepsGraph ==
  [][/\ (lastOp'.type = "expand" /\ IsOk(lastResult'))
          => ~ExpandMustFail(graph, lastOp'.node)
     /\ (lastOp'.type = "expand" /\ IsErr(lastResult'))
          => (graph' = graph /\ nodesIssued' = nodesIssued)]_vars

\* expandNode has just failed with no-recipes.
ExpandFailureWitness ==
  /\ lastOp.type = "expand"
  /\ Len(lastResult) = 1
  /\ lastResult[1].kind = "no-recipes"

\* ------------------------------------------------------------------------
\* C10  What a successful expandNode does
\* ------------------------------------------------------------------------

\* g2 is g after expandNode(n) on the Terminal n of depth d whose recipe
\* has k ingredients.
ExpandEffect(g, g2, n) ==
  LET d == g.nodeDepth[n]
      ingredients == Recipes[recipesForResult(g.nodes[n].item)[1]].ingredients
      k == Len(ingredients)
      kids == g2.downEdges[n]
  IN /\ g.nodes[n].type = "terminal"
     /\ g2.nodes[n].type = "intermediate"
     /\ g2.nodes[n].id = n
     /\ g2.nodeDepth[n] = d
     /\ Len(kids) = k
     /\ Cardinality(SeqToSet(kids)) = k
     /\ NodeIds(g2) = NodeIds(g) \cup SeqToSet(kids)
     /\ SeqToSet(kids) \cap NodeIds(g) = {}
     /\ \A i \in 1..k :
          /\ g2.nodes[kids[i]].type = "terminal"
          /\ g2.nodes[kids[i]].item = ItemOf(ingredients[i])
          /\ g2.nodeDepth[kids[i]] = d + 1
          /\ g2.upEdges[kids[i]] = <<n>>
     /\ LevelCount(g2, d + 1) = LevelCount(g, d + 1) + k
     /\ Len(g2.nodesOnLevel) =
          IF d = Len(g.nodesOnLevel) - 1 THEN Len(g.nodesOnLevel) + 1
          ELSE Len(g.nodesOnLevel)

\* C10: a successful expandNode on Terminal n at depth d with a recipe of k
\* ingredients makes n an Intermediate of the same id and depth with k new
\* Terminal children at depth d+1, one per ingredient, each with upEdges
\* [n], and adds k to nodesOnLevel[d+1], appending the level when d was
\* the deepest.
ExpandCreatesChildren ==
  [][(lastOp'.type = "expand" /\ IsOk(lastResult')
      /\ Has(graph.nodeDepth, lastOp'.node))
     => ExpandEffect(graph, graph', lastOp'.node)]_vars

\* expandNode has just put two children on a level of their own.
ExpandCreatesChildrenWitness ==
  /\ lastOp.type = "expand" /\ IsOk(lastResult)
  /\ Len(graph.downEdges[lastOp.node]) = 2
  /\ graph.nodeDepth[lastOp.node] + 2 = Len(graph.nodesOnLevel)
  /\ LevelCount(graph, graph.nodeDepth[lastOp.node] + 1) = 2

\* ------------------------------------------------------------------------
\* C11  collapseNode and a child that keeps another parent
\* ------------------------------------------------------------------------

\* c was a child of p, and a parent of c other than p is still a node.
KeepsParent(g, g2, p, c) ==
  /\ c \in SeqToSet(Children(g, p))
  /\ Has(g.upEdges, c)
  /\ \E q \in SeqToSet(g.upEdges[c]) : q # p /\ Has(g2.nodes, q)

\* C11: when collapseNode(P) returns Ok (after calls that all returned Ok)
\* and the child C of P has another parent that is still in the graph, C
\* is still a node, P is no longer in upEdges[C], and nodeDepth[C] is
\* 1 + the largest depth of the parents C has left; when C was the only
\* child of P and its depth changed, nodesOnLevel lost one at the old depth
\* and gained one at the new depth.
CollapseKeepsSharedChild ==
  [][(allOk' /\ lastOp'.type = "collapse")
     => \A c \in NodeIds(graph) :
          KeepsParent(graph, graph', lastOp'.node, c)
          => /\ Has(graph'.nodes, c)
             /\ ~IsUp(graph', c, lastOp'.node)
             /\ Has(graph'.nodeDepth, c)
             /\ \A q \in SeqToSet(graph'.upEdges[c]) : Has(graph'.nodeDepth, q)
             /\ graph'.nodeDepth[c] = DepthFromParents(graph', c)
             /\ (Children(graph, lastOp'.node) = <<c>>
                  /\ graph'.nodeDepth[c] # graph.nodeDepth[c])
                 => /\ LevelCount(graph', graph.nodeDepth[c])
                         = LevelCount(graph, graph.nodeDepth[c]) - 1
                    /\ LevelCount(graph', graph'.nodeDepth[c])
                         = LevelCount(graph, graph'.nodeDepth[c]) + 1]_vars

\* ------------------------------------------------------------------------
\* C12  collapseNode removes what only the collapsed node led to
\* ------------------------------------------------------------------------

RECURSIVE ReachFrom(_, _, _)

\* The nodes reached from the ids in `seen` along downEdges, never entering
\* the id `avoid`.
ReachFrom(g, seen, avoid) ==
  LET step == {c \in NodeIds(g) \ (seen \cup {avoid}) :
                 \E a \in seen : IsDown(g, a, c)}
  IN IF step = {} THEN seen ELSE ReachFrom(g, seen \cup step, avoid)

\* The nodes the Root reaches, but only by way of p.
OnlyThrough(g, p) ==
  (ReachFrom(g, RootIds(g), None) \ ReachFrom(g, RootIds(g), p)) \ {p}

\* C12: after collapseNode(P) returned Ok (as did every call before it),
\* no node that the Root reached only through P is left in nodes,
\* nodeDepth or upEdges.
CollapseRemovesSubgraph ==
  [][(allOk' /\ lastOp'.type = "collapse")
     => \A n \in OnlyThrough(graph, lastOp'.node) :
          /\ ~Has(graph'.nodes, n)
          /\ ~Has(graph'.nodeDepth, n)
          /\ ~Has(graph'.upEdges, n)]_vars

\* ------------------------------------------------------------------------
\* C13  expandNode followed by collapseNode
\* ------------------------------------------------------------------------

\* collapseNode(n) applied to what expandNode(n) made of the graph g.
ExpandThenCollapse(g, issued, n) ==
  collapseNode(expandNode(Heap(g), issued, n).h, n)

\* C13: for every Terminal n whose item has exactly one producing recipe,
\* expandNode(n) immediately followed by collapseNode(n) both return Ok and
\* leave a Terminal with the id, the item and the required amount n had.
ExpandCollapseInverse ==
  allOk =>
    \A n \in NodeIds(graph) :
      (graph.nodes[n].type = "terminal"
       /\ Len(recipesForResult(graph.nodes[n].item)) = 1)
      => LET r == ExpandThenCollapse(graph, nodesIssued, n)
         IN /\ IsOk(r.res)
            /\ Has(r.h.nodes, n)
            /\ r.h.nodes[n].type = "terminal"
            /\ r.h.nodes[n].id = n
            /\ itemEq(r.h.nodes[n].item, graph.nodes[n].item)
            /\ r.h.nodes[n].amount = graph.nodes[n].amount

\* ------------------------------------------------------------------------
\* C14  Merging two Terminals
\* ------------------------------------------------------------------------

Parents(g, n) == IF Has(g.upEdges, n) THEN SeqToSet(g.upEdges[n]) ELSE {}

\* g2 is g after the Terminals n and w were merged.
TerminalMergeEffect(g, g2, n, w) ==
  /\ Has(g2.nodes, n) /\ ~Has(g2.nodes, w)
  /\ g2.nodes[n].type = "terminal"
  /\ g2.nodes[n].item = g.nodes[n].item
  /\ g2.nodes[n].amount = g.nodes[n].amount + g.nodes[w].amount
  /\ \A p \in Parents(g, n) \cup Parents(g, w) :
       IsDown(g2, p, n) /\ IsUp(g2, n, p)
  /\ \A a \in DOMAIN g2.downEdges : w \notin SeqToSet(g2.downEdges[a])

\* C14: a successful mergeNodes(n, w) on two Terminals leaves n as a
\* Terminal with the sum of the two amounts and removes w; every parent
\* either of them had has n in its downEdges and is in upEdges[n]; no
\* downEdges list contains w any more.
MergeTerminalsEffect ==
  [][(lastOp'.type = "merge" /\ IsOk(lastResult')
      /\ lastOp'.node # lastOp'.with
      /\ graph.nodes[lastOp'.node].type = "terminal"
      /\ graph.nodes[lastOp'.with].type = "terminal")
     => TerminalMergeEffect(graph, graph', lastOp'.node, lastOp'.with)]_vars

\* Two Terminals with different parents were merged: the survivor hangs
\* under both.
MergeTerminalsWitness ==
  /\ lastOp.type = "merge" /\ IsOk(lastResult)
  /\ Has(graph.nodes, lastOp.node)
  /\ graph.nodes[lastOp.node].type = "terminal"
  /\ ~Has(graph.nodes, lastOp.with)
  /\ Cardinality(Parents(graph, lastOp.node)) = 2
  /\ graph.nodes[lastOp.node].amount = 6

\* ------------------------------------------------------------------------
\* C15  Merging two Intermediates
\* ------------------------------------------------------------------------

\* The nodes of the children of w, in order.
ChildNodes(g, w) == [j \in 1..Len(Children(g, w)) |-> g.nodes[Children(g, w)[j]]]

\* g2 is g after the Intermediates n and w were merged.
IntermediateMergeEffect(g, g2, n, w) ==
  /\ Has(g2.nodes, n) /\ ~Has(g2.nodes, w)
  /\ g2.nodes[n].type = "intermediate"
  /\ g2.nodes[n].amount = g.nodes[n].amount + g.nodes[w].amount
  /\ \A c \in SeqToSet(Children(g, w)) \ SeqToSet(Children(g, n)) :
       ~Has(g2.nodes, c)
  /\ \A c \in SeqToSet(Children(g, n)) :
       LET mate == FindRight(g.nodes[c], ChildNodes(g, w))
       IN /\ mate # 0
          /\ Has(g2.nodes, c)
          /\ g2.nodes[c].amount = g.nodes[c].amount + ChildNodes(g, w)[mate].amount

\* C15: a successful mergeNodes(n, w) on two Intermediates with the same
\* first result (after calls that all returned Ok) leaves n with the sum
\* of the two throughputs; no child of w that was not also a child of n is
\* left in nodes, and every child of n has the sum of its amount and the
\* amount of the child of w with the same merge key.
MergeIntermediatesEffect ==
  [][(allOk' /\ lastOp'.type = "merge"
      /\ lastOp'.node # lastOp'.with
      /\ graph.nodes[lastOp'.node].type = "intermediate"
      /\ graph.nodes[lastOp'.with].type = "intermediate")
     => IntermediateMergeEffect(graph, graph', lastOp'.node, lastOp'.with)]_vars

\* ------------------------------------------------------------------------
\* C16  The errors mergeNodes returns before it changes anything
\* ------------------------------------------------------------------------

\* The error kind the arguments of mergeNodes call for, "" when none.
MergeRejection(g, n, w) ==
  IF ~Has(g.nodes, n) \/ ~Has(g.nodes, w) THEN "node-not-found"
  ELSE IF g.nodes[n].type = "root" \/ g.nodes[w].type = "root"
  THEN "incompatible-node-types"
  ELSE IF g.nodes[n].type # g.nodes[w].type THEN "incompatible-node-types"
  ELSE IF ~itemEq(nodeMergeItem(g.nodes[n]), nodeMergeItem(g.nodes[w]))
  THEN "incompatible-node-items"
  ELSE ""

RejectionKinds ==
  {"node-not-found", "incompatible-node-types", "incompatible-node-items"}

\* C16: mergeNodes(n, w) returns node-not-found when n or w is absent,
\* incompatible-node-types when one of them is the Root or one is a
\* Terminal and the other an Intermediate, incompatible-node-items when
\* they are of the same kind with different merge keys; the error is the
\* whole chain and the graph is as before the call.  In no other case is
\* one of these three the outermost error.  (Stated of every call a caller
\* can make in a reachable state.)
MergeRejections ==
  (~hung /\ ~noEffect) =>
    \A n \in CallIds, w \in CallIds :
      LET r == mergeNodes(Heap(graph), n, w)
      IN IF MergeRejection(graph, n, w) # ""
         THEN /\ Len(r.res) = 1
              /\ r.res[1].kind = MergeRejection(graph, n, w)
              /\ Indices(r.h) = graph
         ELSE ~(Len(r.res) = 1 /\ r.res[1].kind \in RejectionKinds)

\* mergeNodes has just turned away two nodes of the same kind with
\* different merge keys.
MergeRejectionsWitness ==
  /\ lastOp.type = "merge"
  /\ Len(lastResult) = 1
  /\ lastResult[1].kind = "incompatible-node-items"
  /\ noEffect

\* ------------------------------------------------------------------------
\* C17  The shape of initialGraph
\* ------------------------------------------------------------------------

\* g is a Root r0 for `recipe` with one Terminal child per ingredient.
InitialShape(g, recipe, r0) ==
  LET ingredients == Recipes[recipe].ingredients
      k == Len(ingredients)
      kids == g.downEdges[r0]
  IN /\ Cardinality(NodeIds(g)) = k + 1
     /\ g.nodes[r0].type = "root" /\ g.nodes[r0].recipe = recipe
     /\ g.nodeDepth[r0] = 0
     /\ DOMAIN g.downEdges = {r0}
     /\ Len(kids) = k /\ Cardinality(SeqToSet(kids)) = k
     /\ NodeIds(g) = {r0} \cup SeqToSet(kids)
     /\ DOMAIN g.upEdges = SeqToSet(kids)
     /\ DOMAIN g.nodeDepth = NodeIds(g)
     /\ \A i \in 1..k :
          /\ g.nodes[kids[i]].type = "terminal"
          /\ g.nodes[kids[i]].id = kids[i]
          /\ g.nodes[kids[i]].item = ItemOf(ingredients[i])
          /\ g.nodeDepth[kids[i]] = 1
          /\ g.upEdges[kids[i]] = <<r0>>
     /\ g.nodesOnLevel = <<1, k>>

\* C17: the graph initialGraph returns for a root recipe with k
\* ingredients has k+1 nodes: the Root at depth 0 and one Terminal per
\* ingredient at depth 1, downEdges[root] lists the k children, upEdges of
\* each child is [root], and nodesOnLevel is [1, k].
InitialGraphShape ==
  lastOp.type = "init" => InitialShape(graph, rootRecipe, rootId)

\* A second recipe with two ingredients was selected: the Root's id is not
\* the first id.
InitialGraphShapeWitness ==
  /\ lastOp.type = "init"
  /\ rootId > 0
  /\ Len(Recipes[rootRecipe].ingredients) = 2
  /\ graph.nodesOnLevel = <<1, 2>>

\* ------------------------------------------------------------------------
\* C18  The amounts of initialGraph
\* ------------------------------------------------------------------------

\* C18: the Terminal of an ingredient with amount a has the required
\* amount machineCount * a / craftingTime with machineCount =
\* 2 * craftingTime / resultAmount / craftingSpeed, that is, amount *
\* resultAmount * craftingSpeed = 2 * a; for the recipe rP (A x 2, B x 1,
\* crafting time 1, one result, speed 1) the amounts are 4 and 2.
InitialAmounts ==
  lastOp.type = "init" =>
    LET rec == Recipes[rootRecipe]
        kids == graph.downEdges[rootId]
    IN /\ \A i \in 1..Len(kids) :
            graph.nodes[kids[i]].amount * rec.results[1].amount
              * CraftingSpeed(graph.nodes[rootId].machine)
            = 2 * rec.ingredients[i].amount
       /\ rootRecipe = "rP" =>
            /\ graph.nodes[kids[1]].amount = 4
            /\ graph.nodes[kids[2]].amount = 2

\* A recipe with crafting time 2 and result amount 2 was selected.
InitialAmountsWitness ==
  /\ lastOp.type = "init"
  /\ rootRecipe = "rQ"
  /\ graph.nodes[graph.downEdges[rootId][1]].amount = 1

\* ------------------------------------------------------------------------
\* C19  The identity allocator
\* ------------------------------------------------------------------------

\* C19: the allocator's counter never goes back, every id that appears in
\* the graph was issued (is below the counter), and every id a step adds
\* to the graph is one the counter had not reached before the step: no id
\* is issued twice, the id of a deleted node is not given out again, and
\* the ids issued after handle restored its backup are not ids of the
\* backup.
IdsNeverReused ==
  [][/\ nodesIssued' >= nodesIssued
     /\ \A n \in AllIds(graph) : n < nodesIssued
     /\ \A n \in AllIds(graph') : n < nodesIssued'
     /\ \A n \in AllIds(graph') \ AllIds(graph) : n >= nodesIssued]_vars

\* expandNode has just issued ids although ids issued earlier are no
\* longer in the graph.
IdsNeverReusedWitness ==
  /\ lastOp.type = "expand" /\ IsOk(lastResult)
  /\ \E i \in 0..(nodesIssued - 1) : i \notin AllIds(graph)
  /\ (nodesIssued - 1) \in NodeIds(graph)

\* ------------------------------------------------------------------------
\* C20  The graph stays acyclic
\* ------------------------------------------------------------------------

\* The nodes reached from n by one or more down-edges.
Descendants(g, n) ==
  ReachFrom(g, SeqToSet(Children(g, n)) \cap NodeIds(g), None)

\* C20: after every call, whether it returned Ok or an error, no node
\* reaches itself by following downEdges -- also with recipes in which an
\* item is an ingredient of itself, where mergeNodes can be given a node
\* and one of its descendants.
Acyclicity ==
  \A n \in NodeIds(graph) : n \notin Descendants(graph, n)

\* ------------------------------------------------------------------------
\* C21  Every call returns
\* ------------------------------------------------------------------------

\* C21: every call of expandNode, collapseNode and mergeNodes on a graph
\* reached from initialGraph by earlier calls comes back with a Result:
\* no call runs forever and none throws.
CallsReturn ==
  ~hung /\ ~ChainHas(lastResult, "<throw>")

\* ------------------------------------------------------------------------
\* C22  The application restores its snapshot after an inconsistency
\* ------------------------------------------------------------------------

\* C22: in the application's edit handler, when the mutator returns an
\* error whose causal chain has an inconsistent-graph error, the current
\* graph after handling is the snapshot taken before the mutator ran; when
\* the mutator returns Ok, the current graph is the graph as the mutator
\* left it.
RestoreOnInconsistency ==
  [][/\ (~hung' /\ IsErr(lastResult')
          /\ ChainHas(lastResult', "inconsistent-graph"))
        => graph' = graph
     /\ (IsOk(lastResult') /\ lastOp'.type = "expand")
        => graph' = Indices(expandNode(Heap(graph), nodesIssued,
                                       lastOp'.node).h)
     /\ (IsOk(lastResult') /\ lastOp'.type = "collapse")
        => graph' = Indices(collapseNode(Heap(graph), lastOp'.node).h)
     /\ (IsOk(lastResult') /\ lastOp'.type = "merge")
        => graph' = Indices(mergeNodes(Heap(graph), lastOp'.node,
                                       lastOp'.with).h)]_vars

\* A merge of two Intermediates failed with an inconsistency when it paired
\* their children, after it had removed one of the two: both are there.
RestoreOnInconsistencyWitness ==
  /\ lastOp.type = "merge"
  /\ Len(lastResult) = 2
  /\ lastResult[2].kind = "inconsistent-graph"
  /\ lastResult[2].info =
       <<"While merging intermediates, found intermediates with different recipe items">>
  /\ Cardinality({n \in NodeIds(graph) :
                    graph.nodes[n].type = "intermediate"}) = 2
  /\ EdgeIds(graph) \subseteq NodeIds(graph)

\* ------------------------------------------------------------------------
\* C23  Terminals have no downEdges entry
\* ------------------------------------------------------------------------

\* C23: after any sequence of successful calls, no Terminal node of nodes
\* is a key of downEdges.
TerminalsHaveNoDownEdges ==
  allOk => \A n \in NodeIds(graph) :
             graph.nodes[n].type = "terminal" => ~Has(graph.downEdges, n)

\* collapseNode has just made a Terminal of an Intermediate, and downEdges
\* still has the entry of a node the collapse deleted.
TerminalsHaveNoDownEdgesWitness ==
  /\ allOk /\ lastOp.type = "collapse"
  /\ graph.nodes[lastOp.node].type = "terminal"
  /\ ~Has(graph.downEdges, lastOp.node)
  /\ \E k \in DOMAIN graph.downEdges : ~Has(graph.nodes, k)

\* ------------------------------------------------------------------------
\* C24  The children of an Intermediate
\* ------------------------------------------------------------------------

\* The Intermediate n has one child per ingredient of its recipe.
ChildPerIngredient(g, n) ==
  /\ Has(g.downEdges, n)
  /\ Len(g.downEdges[n]) = Len(Recipes[g.nodes[n].recipe].ingredients)
  /\ Len(g.downEdges[n]) >= 1

\* The merge keys of the children of n are the ingredient items of its
\* recipe (as sets).
ChildKeysAreIngredients(g, n) ==
  /\ \A c \in SeqToSet(Children(g, n)) : Has(g.nodes, c)
  /\ {nodeMergeItem(g.nodes[c]) : c \in SeqToSet(Children(g, n))}
       = {ItemOf(Recipes[g.nodes[n].recipe].ingredients[i]) :
            i \in 1..Len(Recipes[g.nodes[n].recipe].ingredients)}

\* C24: after any sequence of successful calls, every Intermediate has a
\* downEdges list as long as its recipe's ingredient list (at least one),
\* and the merge keys of those children are the recipe's ingredient items.
IntermediateChildren ==
  allOk => \A n \in NodeIds(graph) :
             graph.nodes[n].type = "intermediate"
             => ChildPerIngredient(graph, n) /\ ChildKeysAreIngredients(graph, n)

\* ------------------------------------------------------------------------
\* C25  canMerge
\* ------------------------------------------------------------------------

\* The merge key the node n of g has: the first result of an
\* Intermediate's recipe, the item of a Terminal.
KeyOf(g, n) ==
  IF g.nodes[n].type = "intermediate"
  THEN Recipes[g.nodes[n].recipe].results[1]
  ELSE g.nodes[n].item

\* C25: canMerge(a, b) changes nothing; it is false when a or b is the
\* Root, and otherwise true exactly when the merge keys of a and b have
\* the same name and the same item/fluid kind; canMerge(b, a) gives the
\* same answer.
CanMergeAnswers ==
  [][lastOp'.type = "canMerge" =>
       LET a == lastOp'.node
           b == lastOp'.with
       IN /\ graph' = graph /\ nodesIssued' = nodesIssued
          /\ (graph.nodes[a].type = "root" \/ graph.nodes[b].type = "root")
               => ~answer'
          /\ (graph.nodes[a].type # "root" /\ graph.nodes[b].type # "root")
               => (answer' <=> /\ KeyOf(graph, a).name = KeyOf(graph, b).name
                               /\ KeyOf(graph, a).type = KeyOf(graph, b).type)
          /\ answer' = canMerge(graph.nodes[b], graph.nodes[a])]_vars

\* canMerge has just said yes to two Intermediates with different recipes
\* that have the same first result.
CanMergeAnswersWitness ==
  /\ lastOp.type = "canMerge" /\ answer
  /\ graph.nodes[lastOp.node].type = "intermediate"
  /\ graph.nodes[lastOp.with].type = "intermediate"
  /\ graph.nodes[lastOp.node].recipe # graph.nodes[lastOp.with].recipe

\* ------------------------------------------------------------------------
\* C26  What a successful collapseNode leaves of the node
\* ------------------------------------------------------------------------

\* g2 is g after collapseNode(n) on the Intermediate n.
CollapseEffect(g, g2, n) ==
  /\ g.nodes[n].type = "intermediate"
  /\ Has(g2.nodes, n)
  /\ g2.nodes[n].type = "terminal"
  /\ g2.nodes[n].id = n
  /\ itemEq(g2.nodes[n].item, Recipes[g.nodes[n].recipe].results[1])
  /\ g2.nodes[n].amount = g.nodes[n].amount
  /\ Has(g.nodeDepth, n) = Has(g2.nodeDepth, n)
  /\ Has(g.nodeDepth, n) => g2.nodeDepth[n] = g.nodeDepth[n]
  /\ Has(g.upEdges, n) = Has(g2.upEdges, n)
  /\ Has(g.upEdges, n) => g2.upEdges[n] = g.upEdges[n]
  /\ ~Has(g2.downEdges, n)

\* C26: a successful collapseNode(n) puts a Terminal with the id n in the
\* place of the Intermediate n; its item is the first result of n's recipe
\* and its required amount is n's desired throughput; nodeDepth[n] and
\* upEdges[n] are as before, and downEdges has no entry for n.
CollapseReplacesNode ==
  [][(lastOp'.type = "collapse" /\ IsOk(lastResult'))
     => CollapseEffect(graph, graph', lastOp'.node)]_vars

\* ------------------------------------------------------------------------
\* C27  The amounts expandNode gives
\* ------------------------------------------------------------------------

\* C27: a successful expandNode on a Terminal with the required amount r
\* makes it an Intermediate with the desired throughput r, and the new
\* child for an ingredient with the amount a has the required amount r * a.
ExpandAmounts ==
  [][(lastOp'.type = "expand" /\ IsOk(lastResult'))
     => LET n == lastOp'.node
            r == graph.nodes[n].amount
            ingredients ==
              Recipes[recipesForResult(graph.nodes[n].item)[1]].ingredients
            kids == graph'.downEdges[n]
        IN /\ graph.nodes[n].type = "terminal"
           /\ graph'.nodes[n].type = "intermediate"
           /\ graph'.nodes[n].amount = r
           /\ Len(kids) = Len(ingredients)
           /\ \A i \in 1..Len(kids) :
                /\ kids[i] \notin NodeIds(graph)
                /\ graph'.nodes[kids[i]].type = "terminal"
                /\ graph'.nodes[kids[i]].amount = r * ingredients[i].amount]_vars

\* expandNode has just expanded a Terminal with the amount 4 by a recipe
\* whose second ingredient has the amount 2.
ExpandAmountsWitness ==
  /\ lastOp.type = "expand" /\ IsOk(lastResult)
  /\ graph.nodes[lastOp.node].amount = 4
  /\ Len(graph.downEdges[lastOp.node]) = 2
  /\ graph.nodes[graph.downEdges[lastOp.node][2]].amount = 8

\* ------------------------------------------------------------------------
\* C28  The order in which expandNode classifies its failures
\* ------------------------------------------------------------------------

\* The number of recipes that have the item among their results.
ProducerCount(item) ==
  Cardinality({r \in RecipeNames :
                 \E i \in 1..Len(Recipes[r].results) :
                   /\ Recipes[r].results[i].name = item.name
                   /\ Recipes[r].results[i].type = item.type})

\* The error kind expandNode(n) is to return on g, "" when it is to
\* succeed.
ExpandRejection(g, n) ==
  IF ~Has(g.nodes, n) THEN "node-not-found"
  ELSE IF g.nodes[n].type \in {"root", "intermediate"} THEN "unsupported-node"
  ELSE IF ProducerCount(g.nodes[n].item) = 0 THEN "no-recipes"
  ELSE IF ProducerCount(g.nodes[n].item) >= 2 THEN "multiple-recipes"
  ELSE ""

\* C28: expandNode returns node-not-found for an absent id; otherwise
\* unsupported-node for a Root or an Intermediate; otherwise no-recipes
\* for an item no recipe produces; otherwise multiple-recipes for an item
\* two or more recipes produce; and Ok exactly for a Terminal whose item
\* has one producing recipe.  (Stated of every call a caller can make in a
\* reachable state.)
ExpandRejections ==
  (~hung /\ ~noEffect) =>
    \A n \in CallIds :
      LET r == expandNode(Heap(graph), nodesIssued, n)
      IN IF ExpandRejection(graph, n) = "" THEN IsOk(r.res)
         ELSE Len(r.res) = 1 /\ r.res[1].kind = ExpandRejection(graph, n)

\* expandNode has just turned away a Terminal whose item two recipes
\* produce.
ExpandRejectionsWitness ==
  /\ lastOp.type = "expand"
  /\ Len(lastResult) = 1
  /\ lastResult[1].kind = "multiple-recipes"
  /\ noEffect

\* ------------------------------------------------------------------------
\* C29  What a successful mergeNodes leaves of its two arguments
\* ------------------------------------------------------------------------

\* g2 is g after mergeNodes(n, w).
MergeSurvivor(g, g2, n, w) ==
  /\ Has(g2.nodes, n)
  /\ Has(g2.nodeDepth, n)
  /\ g2.nodeDepth[n] >= g.nodeDepth[n]
  /\ g2.nodeDepth[n] >= g.nodeDepth[w]
  /\ g2.nodeDepth[n] \in {g.nodeDepth[n], g.nodeDepth[w]}
  /\ w \notin AllIds(g2)

\* C29: after a successful mergeNodes(node, withNode), node is still a key
\* of nodes and its depth is the larger of the depths the two had before
\* the call; withNode is in none of nodes, nodeDepth, upEdges and
\* downEdges, neither as a key nor as a list element.  (Stated of two
\* different ids: with node = withNode the two halves exclude each other.)
MergeKeepsNodeDropsWith ==
  [][(lastOp'.type = "merge" /\ IsOk(lastResult')
      /\ lastOp'.node # lastOp'.with)
     => MergeSurvivor(graph, graph', lastOp'.node, lastOp'.with)]_vars

\* mergeNodes has just merged a node into one that was less deep: the
\* survivor has parents at different depths and is one below the deeper.
MergeKeepsNodeDropsWithWitness ==
  /\ lastOp.type = "merge" /\ IsOk(lastResult)
  /\ lastOp.node # lastOp.with
  /\ lastOp.with \notin AllIds(graph)
  /\ \E p \in Parents(graph, lastOp.node), q \in Parents(graph, lastOp.node) :
       /\ Has(graph.nodeDepth, p) /\ Has(graph.nodeDepth, q)
       /\ graph.nodeDepth[p] < graph.nodeDepth[q]
       /\ graph.upEdges[lastOp.node] = <<p, q>>
       /\ graph.nodeDepth[lastOp.node] = graph.nodeDepth[q] + 1

\* ------------------------------------------------------------------------
\* C30  collapseNode removes the nodes it deletes from every index
\* ------------------------------------------------------------------------

\* C30: after collapseNode returned Ok (as did every call before it), no
\* id that is absent from nodes is a key of downEdges, upEdges or
\* nodeDepth.
CollapseLeavesNoStaleKeys ==
  (allOk /\ lastOp.type = "collapse")
  => /\ DOMAIN graph.downEdges \subseteq NodeIds(graph)
     /\ DOMAIN graph.upEdges \subseteq NodeIds(graph)
     /\ DOMAIN graph.nodeDepth \subseteq NodeIds(graph)

\* ------------------------------------------------------------------------
\* C31  Result.context and errorChain
\* ------------------------------------------------------------------------

\* c is what wrapping the Result r with the context ctx is to give.
Wraps(c, r, ctx) ==
  IF IsOk(r) THEN c = r /\ Len(errorChain(c)) = 0
  ELSE /\ IsErr(c)
       /\ Len(errorChain(c)) = Len(errorChain(r)) + 1
       /\ errorChain(c)[1] = ctx
       /\ \A i \in 1..Len(errorChain(r)) :
            errorChain(c)[i + 1] = errorChain(r)[i]
       /\ \A kind \in {"inconsistent-graph", "no-edge"} :
            (\E i \in 1..Len(errorChain(r)) : errorChain(r)[i].kind = kind)
            => \E i \in 1..Len(errorChain(c)) : errorChain(c)[i].kind = kind

\* The Result r wrapped once, as the application's wrappers do, and once
\* more.
WrapsTwice(r, n, w) ==
  /\ Wraps(context(r, CallContext(n, w)), r, CallContext(n, w))
  /\ Wraps(context(context(r, CallContext(n, w)), CallContext(w, n)),
           context(r, CallContext(n, w)), CallContext(w, n))

Contribution(g, p, i) ==
  LET rec == Recipes[g.nodes[p].recipe]
  IN IF g.nodes[p].type = "root"
     THEN initialAmount(machineCount(g.nodes[p].recipe, g.nodes[p].amount,
                                     g.nodes[p].machine),
                        rec.ingredients[i].amount, rec.energyRequired)
     ELSE g.nodes[p].amount * rec.ingredients[i].amount

RECURSIVE SumOver(_, _)

\* The sum of f over the set S.
SumOver(f, S) ==
  IF S = {} THEN 0
  ELSE LET x == CHOOSE y \in S : TRUE
       IN f[x] + SumOver(f, S \ {x})

\* The edges <<p, i>> that lead to c: p is a node and downEdges[p][i] = c.
EdgesTo(g, c) ==
  {e \in (DOMAIN g.downEdges \cap NodeIds(g)) \X (1..3) :
     /\ e[2] <= Len(g.downEdges[e[1]])
     /\ e[2] <= Len(Recipes[g.nodes[e[1]].recipe].ingredients)
     /\ g.downEdges[e[1]][e[2]] = c}

\* The sum of what the parents of c ask of it.
Demand(g, c) ==
  SumOver([e \in EdgesTo(g, c) |-> Contribution(g, e[1], e[2])], EdgesTo(g, c))

\* C32: after any sequence of successful calls, the amount of every node
\* other than the Root is the sum of what its current parents ask of it;
\* so when two Terminals with the amounts r1 and r2 were merged and the
\* parent of the second is collapsed, the amount is r1 again.  (Stated for
\* the nodes whose parents are all nodes of the graph.)
ThroughputConservation ==
  allOk => \A c \in NodeIds(graph) \ RootIds(graph) :
             (Parents(graph, c) # {} /\ Parents(graph, c) \subseteq NodeIds(graph))
             => graph.nodes[c].amount = Demand(graph, c)

\* ------------------------------------------------------------------------
\* C33  canMerge and the preconditions of mergeNodes
\* ------------------------------------------------------------------------

\* mergeNodes(a, b) on g returns incompatible-node-types or
\* incompatible-node-items as its outermost error.
MergeTurnsAway(g, a, b) ==
  LET res == mergeNodes(Heap(g), a, b).res
  IN /\ IsErr(res)
     /\ res[1].kind \in {"incompatible-node-types", "incompatible-node-items"}

\* C33: for any two different nodes a and b of a reachable graph,
\* canMerge(a, b) is true exactly when mergeNodes(a, b) does not fail with
\* incompatible-node-types or incompatible-node-items at the top level; so
\* canMerge is false for a Terminal and an Intermediate with the same
\* item.
CanMergeAgreesWithMerge ==
  (~hung /\ ~noEffect) =>
    \A a \in NodeIds(graph), b \in NodeIds(graph) :
      a # b => (canMerge(graph.nodes[a], graph.nodes[b])
                <=> ~MergeTurnsAway(graph, a, b))

\* ------------------------------------------------------------------------
\* C34  Merging two Intermediates that share a child
\* ------------------------------------------------------------------------

\* The children the Intermediates p and q of g have in common.
SharedChildren(g, p, q) ==
  IF /\ p # q /\ Has(g.nodes, p) /\ Has(g.nodes, q)
     /\ g.nodes[p].type = "intermediate" /\ g.nodes[q].type = "intermediate"
  THEN (SeqToSet(Children(g, p)) \cap SeqToSet(Children(g, q))) \cap NodeIds(g)
  ELSE {}

\* The number of times x occurs in the sequence s.
Occurrences(s, x) == Cardinality({i \in 1..Len(s) : s[i] = x})

\* C34: mergeNodes(P, Q) on two Intermediates that have the child C in
\* common returns, and afterwards C is still a node with the amount it
\* had, upEdges[C] has P once and Q not at all, and nodesOnLevel counts C.
SharedChildKept ==
  [][\A c \in SharedChildren(graph, lastOp'.node, lastOp'.with) :
       (lastOp'.type = "merge" /\ (hung' \/ IsOk(lastResult')))
       => /\ ~hung'
          /\ Has(graph'.nodes, c)
          /\ graph'.nodes[c].amount = graph.nodes[c].amount
          /\ Has(graph'.upEdges, c)
          /\ Occurrences(graph'.upEdges[c], lastOp'.node) = 1
          /\ Occurrences(graph'.upEdges[c], lastOp'.with) = 0
          /\ Has(graph'.nodeDepth, c)
          /\ LevelCount(graph', graph'.nodeDepth[c]) >= 1]_vars

\* ------------------------------------------------------------------------
\* C35  mergeNodes of a node with itself
\* ------------------------------------------------------------------------

\* C35: mergeNodes(n, n) on a Terminal or Intermediate n of the graph
\* returns, and does not remove n from nodes, change its amount or change
\* nodesOnLevel.  (lastOp keeps the ids of a call that returned Ok or did
\* not return.)
SelfMergeChangesNothing ==
  [][(lastOp'.type = "merge" /\ lastOp'.node = lastOp'.with
      /\ Has(graph.nodes, lastOp'.node))
     => /\ ~hung'
        /\ Has(graph'.nodes, lastOp'.node)
        /\ graph'.nodes[lastOp'.node].amount = graph.nodes[lastOp'.node].amount
        /\ graph'.nodesOnLevel = graph.nodesOnLevel]_vars

\* ------------------------------------------------------------------------
\* C36  The indices agree on which nodes exist
\* ------------------------------------------------------------------------

\* C36: after any sequence of successful calls, the keys of nodeDepth are
\* the keys of nodes, and the keys of upEdges are the keys of nodes
\* without the Root.
IndicesAgree ==
  allOk => /\ DOMAIN graph.nodeDepth = NodeIds(graph)
           /\ DOMAIN graph.upEdges = NodeIds(graph) \ RootIds(graph)

\* ------------------------------------------------------------------------
\* C37  Internal errors and the public interface
\* ------------------------------------------------------------------------

\* The results of every call of the three mutators a caller can make on g
\* with ids of nodes of g.
PublicResults(g, issued) ==
  {expandNode(Heap(g), issued, n).res : n \in NodeIds(g)}
    \cup {collapseNode(Heap(g), n).res : n \in NodeIds(g)}
    \cup {mergeNodes(Heap(g), n, w).res : n \in NodeIds(g), w \in NodeIds(g)}

\* C37: on a graph reached from initialGraph by expandNode, collapseNode
\* and mergeNodes calls with ids of present nodes (failed calls included,
\* nothing restored), no call with ids of present nodes returns an error
\* whose chain of causes contains inconsistent-graph or no-edge.
NoInternalErrors ==
  (~hung /\ ~noEffect) =>
    \A res \in PublicResults(graph, nodesIssued) :
      ~ChainHas(res, "inconsistent-graph") /\ ~ChainHas(res, "no-edge")

\* ------------------------------------------------------------------------
\* C38  What expandNode and a merge of Terminals leave alone
\* ------------------------------------------------------------------------

\* The maps a and b agree on the key k: both lack it or both have it with
\* the same value.
SameEntry(a, b, k) ==
  /\ (k \in DOMAIN a) <=> (k \in DOMAIN b)
  /\ (k \in DOMAIN a) => a[k] = b[k]

\* The step is a successful expandNode(n) and changes nothing but what
\* belongs to n and to its new children.
ExpandFrame ==
  (lastOp'.type = "expand" /\ lastResult' = Ok) =>
    LET n == lastOp'.node
        depth == IF n \in DOMAIN graph.nodeDepth THEN graph.nodeDepth[n] ELSE 0
        old == graph.nodesOnLevel
        new == graph'.nodesOnLevel
    IN /\ \A m \in NodeIds(graph) \ {n} :
            /\ SameEntry(graph.nodes, graph'.nodes, m)
            /\ SameEntry(graph.nodeDepth, graph'.nodeDepth, m)
            /\ SameEntry(graph.upEdges, graph'.upEdges, m)
            /\ SameEntry(graph.downEdges, graph'.downEdges, m)
       /\ SameEntry(graph.upEdges, graph'.upEdges, n)
       /\ \A i \in (DOMAIN old) \cup (DOMAIN new) :
            i # depth + 2 => SameEntry(old, new, i)

\* The step is a successful mergeNodes(n, w) of two Terminals and leaves
\* the amount and the depth of every other node as they were.
MergeTerminalsFrame ==
  (/\ lastOp'.type = "merge" /\ lastResult' = Ok
   /\ graph.nodes[lastOp'.node].type = "terminal"
   /\ graph.nodes[lastOp'.with].type = "terminal") =>
    \A m \in NodeIds(graph) \ {lastOp'.node, lastOp'.with} :
      /\ m \in NodeIds(graph')
      /\ graph'.nodes[m].amount = graph.nodes[m].amount
      /\ SameEntry(graph.nodeDepth, graph'.nodeDepth, m)

\* C38: a successful expandNode(n) leaves unchanged the nodes entry,
\* nodeDepth, upEdges and downEdges of every node other than n that
\* existed before the call, leaves upEdges[n] unchanged, and changes
\* nodesOnLevel only at depth(n) + 1; a successful merge of two Terminals
\* leaves the amounts and depths of all nodes other than the two arguments
\* unchanged.
ExpandAndTerminalMergeFrame ==
  [][ExpandFrame /\ MergeTerminalsFrame]_vars

\* Two different Terminals were merged in a graph that has an expanded
\* node and at least two nodes besides the merged pair.
ExpandAndTerminalMergeFrameWitness ==
  /\ lastOp.type = "merge" /\ lastResult = Ok
  /\ lastOp.node # lastOp.with
  /\ lastOp.node \in NodeIds(graph)
  /\ graph.nodes[lastOp.node].type = "terminal"
  /\ Cardinality(NodeIds(graph)) >= 3
  /\ \E m \in NodeIds(graph) : graph.nodes[m].type = "intermediate"

\* ------------------------------------------------------------------------
\* C39  The idle-time task scheduler
\* ------------------------------------------------------------------------

\* The tasks were started in the order they were queued, none twice.
StartedInQueueOrder ==
  \A i \in 1..Len(started), j \in 1..Len(started) :
    i < j => started[i] < started[j]

\* C39 (safety part): the tasks handed to scheduleTilDeadline are started
\* in the order they were queued, each at most once, and a task is started
\* only after the task started before it has finished: no two
\* asynchronous tasks are in flight at once, also when scheduleTilDeadline
\* is called while a run loop is awaiting a task.
OneTaskAtATime ==
  /\ StartedInQueueOrder
  /\ Cardinality(inFlight) <= 1

\* ------------------------------------------------------------------------
\* C40  severEdge
\* ------------------------------------------------------------------------

\* The edge list the map m holds for k, empty when it holds none.
EdgeList(m, k) == IF k \in DOMAIN m THEN m[k] ELSE <<>>

\* upEdges[to] names from.
UpPresent(g, from, to) == Occurrences(EdgeList(g.upEdges, to), from) > 0

\* downEdges[from] names to.
DownPresent(g, from, to) == Occurrences(EdgeList(g.downEdges, from), to) > 0

\* What severEdge(from, to) does on g.
SeverEdgeEffect(g, from, to) ==
  LET r == severEdge(Heap(g), from, to)
  IN IF ~UpPresent(g, from, to)
     THEN r.res = Err("no-edge", from, to, <<"up">>) /\ r.h = Heap(g)
     ELSE IF ~DownPresent(g, from, to)
     THEN r.res = Err("no-edge", from, to, <<"down">>) /\ r.h = Heap(g)
     ELSE /\ ~ChainHas(r.res, "no-edge")
          /\ Occurrences(EdgeList(r.h.upEdges, to), from)
               = Occurrences(EdgeList(g.upEdges, to), from) - 1
          /\ Occurrences(EdgeList(r.h.downEdges, from), to)
               = Occurrences(EdgeList(g.downEdges, from), to) - 1

\* C40: severEdge(from, to) returns a no-edge error, with direction up when
\* from is not in upEdges[to] (or to has no upEdges entry) and direction
\* down when from is there and to is not in downEdges[from], and has then
\* removed nothing from either edge list; when both directions are
\* present it removes exactly one occurrence of from in upEdges[to] and
\* one occurrence of to in downEdges[from].
SeverEdgeRemovesOneEdge ==
  (~hung /\ ~noEffect) =>
    \A from \in AllIds(graph), to \in AllIds(graph) :
      SeverEdgeEffect(graph, from, to)

\* Some edge is there in both directions, and some up-edge has no
\* down-edge: severEdge removes the first and answers the second with
\* direction down.
SeverEdgeRemovesOneEdgeWitness ==
  /\ ~hung /\ ~noEffect
  /\ \E from \in AllIds(graph), to \in AllIds(graph) :
       UpPresent(graph, from, to) /\ DownPresent(graph, from, to)
  /\ \E from \in AllIds(graph), to \in AllIds(graph) :
       UpPresent(graph, from, to) /\ ~DownPresent(graph, from, to)
====
